---- MODULE Spec2Model ----
(***************************************************************************)
(* LockinEdge backend: the resume-job matching and recommendation core.    *)
(*                                                                         *)
(*   - the heuristic matcher matchJobsWithResume (jobs.service.ts) over    *)
(*     the relational store of schema.ts;                                  *)
(*   - the scrape-and-recommend pipeline RecommendationService             *)
(*     (reccomendationservice.js).                                         *)
(*                                                                         *)
(* Strings are sequences of one-character strings, so that toLowerCase and *)
(* includes are computed, character by character.  Heuristic scores are    *)
(* held in halves (the value 3 stands for 1.5): the code only ever adds 1  *)
(* and 0.5 to a score that starts at 0.                                    *)
(***************************************************************************)
EXTENDS Integers, Sequences, FiniteSets, TLC

VARIABLES
    resumes,      \* resumes table: resume id -> row (or no row)
    jobs,         \* jobs table: rows in storage order
    matches,      \* matches table: rows in storage order
    nextJobId,    \* jobs.id default: ids handed out so far
    nextMatchId,  \* matches.id default: ids handed out so far
    updates,      \* number of updateResume calls so far
    invs,         \* POST /jobs/match/:resumeId requests, each with its handler's locals
    s_analysis,   \* scorer: the resumeAnalysis argument
    s_job,        \* scorer: the job row being scored
    s_out,        \* scorer: result of the loop body for s_job
    rec_pc,       \* generateRecommendations: where the invocation stands
    rec_resume,   \* the resumes row findFirst yields for resumeId
    rec_net,      \* outbound network calls issued so far, in order
    rec_indeed,   \* what scrapeIndeedJobs returned
    rec_remote,   \* what scrapeRemoteOkJobs returned
    rec_jobs,     \* const jobs = await this.scrapeJobs(skills)
    rec_i,        \* position in for (const job of jobs)
    rec_compat,   \* the compatibility obtained for each job scored so far
    rec_last,     \* how the latest LLM call ended
    rec_recs,     \* const recommendations = []
    rec_result,   \* what the invocation returned or threw
    rec_id,       \* the :id path parameter of the recommendations endpoint
    rec_response, \* what ResumeController.generateRecommendations answered
    f_doc,        \* content parsing: a JSON document
    f_fence,      \* content parsing: the code fence put around it
    f_plain,      \* analyzeJobCompatibility's result for the document as it is
    f_fenced,     \* analyzeJobCompatibility's result for the fenced document
    del,          \* a deleteResume call: its version, its position, its answer
    ad,           \* a source adapter applied to one upstream response
    er,           \* extractRequirements applied to one description
    pager,        \* a multi-page scraper: its page loop and what it did so far
    run           \* a scrapeAllJobs call: the scrapers invoked and its results

svars == <<s_analysis, s_job, s_out>>

dbvars == <<resumes, jobs, matches, nextJobId, nextMatchId, updates>>

mvars == <<resumes, jobs, matches, nextJobId, nextMatchId, updates, invs>>

rvars == <<rec_pc, rec_resume, rec_net, rec_indeed, rec_remote, rec_jobs,
           rec_i, rec_compat, rec_last, rec_recs, rec_result, rec_id,
           rec_response>>

fvars == <<f_doc, f_fence, f_plain, f_fenced>>

xvars == <<del, ad, er, pager, run>>

vars == <<resumes, jobs, matches, nextJobId, nextMatchId, updates, invs,
          s_analysis, s_job, s_out,
          rec_pc, rec_resume, rec_net, rec_indeed, rec_remote, rec_jobs,
          rec_i, rec_compat, rec_last, rec_recs, rec_result, rec_id,
          rec_response, f_doc, f_fence, f_plain, f_fenced,
          del, ad, er, pager, run>>

-----------------------------------------------------------------------------
(* String primitives of the JavaScript runtime                             *)

UpperChars ==
    <<"A","B","C","D","E","F","G","H","I","J","K","L","M",
      "N","O","P","Q","R","S","T","U","V","W","X","Y","Z">>

LowerChars ==
    <<"a","b","c","d","e","f","g","h","i","j","k","l","m",
      "n","o","p","q","r","s","t","u","v","w","x","y","z">>

LowerChar(c) ==
    IF \E i \in DOMAIN UpperChars : UpperChars[i] = c
    THEN LowerChars[CHOOSE i \in DOMAIN UpperChars : UpperChars[i] = c]
    ELSE c

\* String.prototype.toLowerCase
ToLowerCase(str) == [i \in DOMAIN str |-> LowerChar(str[i])]

\* String.prototype.includes: needle occurs in hay as a contiguous substring
Includes(hay, needle) ==
    \E k \in 0 .. (Len(hay) - Len(needle)) :
        SubSeq(hay, k + 1, k + Len(needle)) = needle

-----------------------------------------------------------------------------
(* Input pools: the strings, skill lists and descriptions that resumes and  *)
(* jobs are drawn from                                                      *)

Python == <<"P","y","t","h","o","n">>
PythonLower == <<"p","y","t","h","o","n">>
Py == <<"P","y">>
SQL == <<"S","Q","L">>
Django == <<"D","j","a","n","g","o">>
EmptyStr == <<>>

\* "3 years of experience required"
DescRequired ==
    <<"3"," ","y","e","a","r","s"," ","o","f"," ",
      "e","x","p","e","r","i","e","n","c","e"," ",
      "r","e","q","u","i","r","e","d">>
\* "EXPERIENCE a plus"
DescUpper ==
    <<"E","X","P","E","R","I","E","N","C","E"," ","a"," ","p","l","u","s">>
\* "expert in Django"
DescExpert ==
    <<"e","x","p","e","r","t"," ","i","n"," ","D","j","a","n","g","o">>
\* the literal the code looks for in a description
ExperienceWord == <<"e","x","p","e","r","i","e","n","c","e">>

\* a jsonb column or JSON field that holds an array, or something else
ArrayOf(items) == [isArray |-> TRUE, items |-> items]
NotAnArray == [isArray |-> FALSE, items |-> <<>>]

\* a nullable varchar column
Text(str) == [isNull |-> FALSE, text |-> str]
NullText == [isNull |-> TRUE, text |-> <<>>]

\* ResumeAnalysis.experience: a number, or absent
Years(n) == [defined |-> TRUE, value |-> n]
NoYears == [defined |-> FALSE, value |-> 0]

ResumeSkillPool ==
    { ArrayOf(<<Python, SQL>>), ArrayOf(<<PythonLower, Py>>),
      ArrayOf(<<Python, Python>>), ArrayOf(<<Django, EmptyStr, SQL>>),
      ArrayOf(<<>>), NotAnArray }

JobSkillPool ==
    { ArrayOf(<<Python, Django>>), ArrayOf(<<Py, SQL>>),
      ArrayOf(<<PythonLower>>), ArrayOf(<<>>), NotAnArray }

DescriptionPool ==
    { NullText, Text(EmptyStr), Text(DescRequired), Text(DescUpper),
      Text(DescExpert) }

ExperiencePool == { NoYears, Years(0), Years(4) }

-----------------------------------------------------------------------------
(* The heuristic scorer: the body of the for-loop of matchJobsWithResume    *)

\* score += 1, in halves
SkillPoint == 2
\* score += 0.5, in halves
ExperienceBonus == 1

\* containment the wrong way round: the resume skill contains the job tag
SkillHitReversed(jobSkills, resumeSkill) ==
    \E j \in DOMAIN jobSkills :
        Includes(ToLowerCase(resumeSkill), ToLowerCase(jobSkills[j]))

\* job.skills.some(jobSkill => jobSkill.toLowerCase().includes(resumeSkill.toLowerCase()))
SkillHit(jobSkills, resumeSkill) ==
    \E j \in DOMAIN jobSkills :
        Includes(ToLowerCase(jobSkills[j]), ToLowerCase(resumeSkill))

\* for (const resumeSkill of resumeAnalysis.skills) { ... score += 1; matchedSkills.push(...) }
RECURSIVE SkillLoop(_, _, _, _)
SkillLoop(jobSkills, resumeSkills, i, acc) ==
    IF i > Len(resumeSkills) THEN acc
    ELSE SkillLoop(jobSkills, resumeSkills, i + 1,
            IF SkillHit(jobSkills, resumeSkills[i])
            THEN [score |-> acc.score + SkillPoint,
                  matchedSkills |-> Append(acc.matchedSkills, resumeSkills[i])]
            ELSE acc)

\* the loop run over the job's tags, pushing the job tag that matched
SkillPartPushesJobTags(job, analysis) ==
    IF job.skills.isArray /\ analysis.skills.isArray
    THEN SkillLoop(analysis.skills.items, job.skills.items, 1,
                   [score |-> 0, matchedSkills |-> <<>>])
    ELSE [score |-> 0, matchedSkills |-> <<>>]

\* let score = 0; const matchedSkills = []; if (Array.isArray(...) && Array.isArray(...)) { loop }
SkillPart(job, analysis) ==
    IF job.skills.isArray /\ analysis.skills.isArray
    THEN SkillLoop(job.skills.items, analysis.skills.items, 1,
                   [score |-> 0, matchedSkills |-> <<>>])
    ELSE [score |-> 0, matchedSkills |-> <<>>]

\* the bonus without the test of resumeAnalysis.experience
BonusIgnoresExperience(job, analysis) ==
    /\ ~job.description.isNull
    /\ Includes(ToLowerCase(job.description.text), ExperienceWord)

\* resumeAnalysis.experience && job.description?.toLowerCase().includes('experience')
BonusApplies(job, analysis) ==
    /\ analysis.experience.defined
    /\ analysis.experience.value # 0
    /\ ~job.description.isNull
    /\ Includes(ToLowerCase(job.description.text), ExperienceWord)

\* the score and matchedSkills of one job once the loop body reaches `if (score > 0)`
HeuristicScore(job, analysis) ==
    LET part == SkillPart(job, analysis)
    IN  [score |-> part.score
                     + (IF BonusApplies(job, analysis) THEN ExperienceBonus ELSE 0),
         matchedSkills |-> part.matchedSkills]

\* the threshold taken as score >= 0
IsMatchNonNegative(score) == score >= 0

\* if (score > 0)
IsMatch(score) == score > 0

-----------------------------------------------------------------------------
(* SpecScore: the scorer applied to one job and one analysis drawn from the *)
(* pools                                                                    *)

NotScored == [done |-> FALSE, score |-> 0, matchedSkills |-> <<>>]

\* the store and the match requests stay as constructed while the scorer is exercised
StoreIdle ==
    /\ resumes = [r \in {} |-> 0]
    /\ jobs = <<>>
    /\ matches = <<>>
    /\ nextJobId = 0
    /\ nextMatchId = 0
    /\ updates = 0
    /\ invs = <<>>

\* the scorer alone is not in use
ScoreIdle ==
    /\ s_analysis = [skills |-> NotAnArray, experience |-> NoYears]
    /\ s_job = [skills |-> NotAnArray, description |-> NullText]
    /\ s_out = NotScored

\* no content is being parsed
FenceIdle ==
    /\ f_doc = <<>>
    /\ f_fence = [open |-> <<>>, close |-> <<>>]
    /\ f_plain = [done |-> FALSE, value |-> "none"]
    /\ f_fenced = [done |-> FALSE, value |-> "none"]

\* the endpoint has not answered
NoResponse ==
    [status |-> 0, success |-> FALSE, message |-> "none", error |-> "none",
     data |-> <<>>]

\* no generateRecommendations invocation has been made
RecIdle ==
    /\ rec_pc = "idle"
    /\ rec_resume = [present |-> FALSE, analysed |-> FALSE, skills |-> "none"]
    /\ rec_net = <<>>
    /\ rec_indeed = [fetched |-> FALSE, kind |-> "none", threw |-> FALSE, jobs |-> <<>>]
    /\ rec_remote = [fetched |-> FALSE, kind |-> "none", threw |-> FALSE, jobs |-> <<>>]
    /\ rec_jobs = <<>>
    /\ rec_i = 0
    /\ rec_compat = <<>>
    /\ rec_last = "none"
    /\ rec_recs = <<>>
    /\ rec_result = [kind |-> "none", list |-> <<>>, error |-> "none"]
    /\ rec_id = "uuid"
    /\ rec_response = NoResponse

\* no deleteResume call has been made
NoDelete ==
    [pc |-> "idle", version |-> "none", resumeId |-> "none",
     success |-> FALSE, threw |-> FALSE, removed |-> 0]

\* no adapter has been applied
NoAdapterCall ==
    [source |-> "none", data |-> <<>>, skills |-> <<>>, done |-> FALSE,
     out |-> <<>>]

\* extractRequirements has not been applied
NoExtraction == [description |-> <<>>, done |-> FALSE, out |-> <<>>]

\* no multi-page scraper has been started
NoPager ==
    [site |-> "none", pc |-> "idle", pageNum |-> 0, jobData |-> 0,
     allJobs |-> 0, log |-> <<>>, outcome |-> "none", storedCount |-> 0]

\* scrapeAllJobs has not been called
NoRun ==
    [version |-> "none", searchParams |-> FALSE, pc |-> "idle",
     invoked |-> <<>>, settled |-> <<>>, counts |-> <<>>, errors |-> <<>>,
     total |-> 0]

DeleteIdle == del = NoDelete
AdapterIdle == ad = NoAdapterCall
RequirementsIdle == er = NoExtraction
PagerIdle == pager = NoPager
RunIdle == run = NoRun

\* nothing of the scrapers, the adapters or deleteResume is in use
ScrapeIdle ==
    /\ DeleteIdle
    /\ AdapterIdle
    /\ RequirementsIdle
    /\ PagerIdle
    /\ RunIdle

InitScore ==
    /\ StoreIdle
    /\ RecIdle
    /\ FenceIdle
    /\ ScrapeIdle
    /\ s_analysis \in [skills : ResumeSkillPool, experience : ExperiencePool]
    /\ s_job \in [skills : JobSkillPool, description : DescriptionPool]
    /\ s_out = NotScored

ScoreJob ==
    /\ ~s_out.done
    /\ s_out' = [done |-> TRUE,
                 score |-> HeuristicScore(s_job, s_analysis).score,
                 matchedSkills |-> HeuristicScore(s_job, s_analysis).matchedSkills]
    /\ UNCHANGED <<s_analysis, s_job>>
    /\ UNCHANGED <<mvars, rvars, fvars, xvars>>

NextScore == ScoreJob

SpecScore == InitScore /\ [][NextScore]_vars

\* tag contains skill as a substring, letter case ignored
ContainsCI(tag, skill) ==
    \E k \in 0 .. (Len(tag) - Len(skill)) :
        \A m \in 1 .. Len(skill) : LowerChar(tag[k + m]) = LowerChar(skill[m])

\* the positions of the resume skill list that some job tag contains
HitPositions(jobSkills, resumeSkills) ==
    { i \in DOMAIN resumeSkills :
        \E j \in DOMAIN jobSkills : ContainsCI(jobSkills[j], resumeSkills[i]) }

RECURSIVE PickPositions(_, _, _)
PickPositions(seq, P, i) ==
    IF i > Len(seq) THEN <<>>
    ELSE (IF i \in P THEN <<seq[i]>> ELSE <<>>) \o PickPositions(seq, P, i + 1)

\* C8: for a job whose skills is a list and a resume skill list, the whole
\* points of the score are the number of resume skill positions that some job
\* tag contains case-insensitively (job tag contains resume skill), and
\* matchedSkills is those resume skills in resume order; resume skills
\* [Python, SQL] against job skills [Python, Django] without the experience
\* bonus score exactly 1 with matchedSkills [Python].
C8_SkillPart ==
    (s_out.done /\ s_job.skills.isArray /\ s_analysis.skills.isArray) =>
        LET hits == HitPositions(s_job.skills.items, s_analysis.skills.items)
        IN  /\ s_out.score \div SkillPoint = Cardinality(hits)
            /\ s_out.matchedSkills = PickPositions(s_analysis.skills.items, hits, 1)
            /\ ( /\ s_analysis.skills.items = <<Python, SQL>>
                 /\ s_job.skills.items = <<Python, Django>>
                 /\ (s_job.description.isNull
                       \/ ~ContainsCI(s_job.description.text, ExperienceWord))
                 => /\ s_out.score = SkillPoint
                    /\ s_out.matchedSkills = <<Python>> )

C8_Witness ==
    /\ s_out.done
    /\ s_analysis.skills = ArrayOf(<<Python, SQL>>)
    /\ s_job.skills = ArrayOf(<<Python, Django>>)
    /\ s_job.description = Text(DescExpert)
    /\ s_analysis.experience = Years(4)
    /\ s_out.score = SkillPoint
    /\ s_out.matchedSkills = <<Python>>

\* C9: the score is the number of matched resume skills plus 0.5 exactly when
\* the resume's experience is nonzero and the job's description contains
\* "experience" case-insensitively, plus 0 when experience is 0 or absent or
\* the description is null or lacks the substring.
C9_ExperienceBonus ==
    s_out.done =>
        s_out.score =
            Len(s_out.matchedSkills) * SkillPoint
            + (IF /\ s_analysis.experience.defined
                  /\ s_analysis.experience.value # 0
                  /\ ~s_job.description.isNull
                  /\ ContainsCI(s_job.description.text, ExperienceWord)
               THEN ExperienceBonus ELSE 0)

\* resume [Python, SQL] with 4 years against job [Python, Django] whose
\* description is "3 years of experience required": score 1.5
C9_Witness ==
    /\ s_out.done
    /\ s_analysis = [skills |-> ArrayOf(<<Python, SQL>>), experience |-> Years(4)]
    /\ s_job = [skills |-> ArrayOf(<<Python, Django>>), description |-> Text(DescRequired)]
    /\ s_out.score = SkillPoint + ExperienceBonus

\* C11: for a job that matchJobsWithResume returns (score above 0), every
\* element of matchedSkills is an element of the resume's skill list and
\* matchedSkills is no longer than that list, duplicates in the list included;
\* when the resume's skills is not a list, matchedSkills is empty.
C11_MatchedSkillsWithinResume ==
    (s_out.done /\ IsMatch(s_out.score)) =>
        IF s_analysis.skills.isArray
        THEN /\ \A m \in DOMAIN s_out.matchedSkills :
                    \E i \in DOMAIN s_analysis.skills.items :
                        s_out.matchedSkills[m] = s_analysis.skills.items[i]
             /\ Len(s_out.matchedSkills) <= Len(s_analysis.skills.items)
        ELSE s_out.matchedSkills = <<>>

\* resume [Python, Python] against job [Python, Django]: both positions are
\* pushed, matchedSkills is as long as the resume's list
C11_Witness ==
    /\ s_out.done
    /\ IsMatch(s_out.score)
    /\ s_analysis.skills = ArrayOf(<<Python, Python>>)
    /\ s_job.skills = ArrayOf(<<Python, Django>>)
    /\ s_out.matchedSkills = <<Python, Python>>

-----------------------------------------------------------------------------
(* The relational store (schema.ts) and the heuristic match endpoint        *)

\* bounds of the store model
MaxInvocations == 2
MaxJobs == 2
MaxUpdates == 1

ResumeIds == {"r1", "r2"}

\* the values of the :resumeId path parameter: the ids above and a string
\* that is no UUID
RequestIds == ResumeIds \cup {"not-a-uuid"}

\* uuidSchema.safeParse(resumeId).success
IsUuid(id) == id \in ResumeIds

\* resumes.analysis: a nullable jsonb column
Analysed(a) == [isNull |-> FALSE, value |-> a]
NullAnalysis ==
    [isNull |-> TRUE, value |-> [skills |-> NotAnArray, experience |-> NoYears]]

ResumeRow(a) == [present |-> TRUE, analysis |-> a]
NoResume == [present |-> FALSE, analysis |-> NullAnalysis]

StoreAnalysisPool ==
    { [skills |-> ArrayOf(<<Python, SQL>>), experience |-> Years(4)],
      [skills |-> ArrayOf(<<Python, SQL>>), experience |-> Years(0)],
      [skills |-> ArrayOf(<<>>), experience |-> Years(4)] }

StoreJobPool ==
    { [skills |-> ArrayOf(<<Python, Django>>), description |-> Text(DescRequired)],
      [skills |-> NotAnArray, description |-> Text(DescExpert)] }

JobRow(id, content) ==
    [id |-> id, skills |-> content.skills, description |-> content.description]

RowIds(table) == { table[k].id : k \in DOMAIN table }

RECURSIVE RemoveWhere(_, _)
\* DELETE FROM table WHERE id = ...: the other rows, in storage order
RemoveWhere(table, id) ==
    IF table = <<>> THEN <<>>
    ELSE IF Head(table).id = id THEN RemoveWhere(Tail(table), id)
    ELSE <<Head(table)>> \o RemoveWhere(Tail(table), id)

\* a matches table without its foreign keys
ForeignKeysUnchecked(row) == TRUE

\* matches.resume_id and matches.job_id reference resumes.id and jobs.id
ForeignKeysHold(row) ==
    /\ row.resumeId \in ResumeIds
    /\ resumes[row.resumeId].present
    /\ row.jobId \in RowIds(jobs)

\* the unique constraints of the matches table: its primary key, id, alone
UniqueConflict(table, row) ==
    \E k \in DOMAIN table : table[k].id = row.id

\* db.insert(matches).values(row).onConflictDoNothing()
InsertOnConflictDoNothing(table, row) ==
    IF UniqueConflict(table, row) THEN table ELSE Append(table, row)

-----------------------------------------------------------------------------
(* Spec: concurrent POST /jobs/match/:resumeId requests over the store      *)

\* the guard on the row a lookup found, leaving out the analysis test
RouteAnswerIgnoresAnalysis(row) ==
    IF ~row.present THEN 404 ELSE 0

\* if (!resume) -> 404; if (!resume.analysis) -> 400; 0: neither guard answers.
\* getResumeById also yields null for a row whose userId is null; every
\* operation that creates a resume stores a validated userId, so no such row
\* is ever in the table.
RouteAnswer(row) ==
    IF ~row.present THEN 404
    ELSE IF row.analysis.isNull THEN 400
    ELSE 0

\* a request as the route receives it, run up to its first await: a resumeId
\* that is no UUID is answered 400 at once.  `reads` counts the queries the
\* handler has issued, `called` tells whether matchJobsWithResume was called,
\* `after` records the requests that had already been answered when this one
\* arrived.
NewRequest(r) ==
    [pc |-> IF IsUuid(r) THEN "getResume" ELSE "done",
     resumeId |-> r,
     analysis |-> NullAnalysis.value, allJobs |-> <<>>, i |-> 1,
     matchedJobs |-> <<>>, attempted |-> <<>>,
     status |-> IF IsUuid(r) THEN 0 ELSE 400,
     reads |-> 0, called |-> FALSE,
     after |-> { k \in DOMAIN invs : invs[k].pc \in {"done", "failed"} }]

Init ==
    /\ \E a \in StoreAnalysisPool, row \in {NoResume, ResumeRow(NullAnalysis)} :
          resumes = [r \in ResumeIds |->
                       IF r = "r1" THEN ResumeRow(Analysed(a)) ELSE row]
    /\ jobs = <<>>
    /\ matches = <<>>
    /\ nextJobId = 0
    /\ nextMatchId = 0
    /\ updates = 0
    /\ invs = <<>>
    /\ ScoreIdle
    /\ RecIdle
    /\ FenceIdle
    /\ ScrapeIdle

\* createJob: db.insert(jobs).values(data).returning()
CreateJob(content) ==
    /\ nextJobId < MaxJobs
    /\ nextJobId' = nextJobId + 1
    /\ jobs' = Append(jobs, JobRow(nextJobId + 1, content))
    /\ UNCHANGED <<resumes, matches, nextMatchId, updates, invs>>

\* deleteJob: db.delete(jobs).where(eq(jobs.id, id)); a job that a match row
\* references cannot be deleted (foreign key, no cascade)
DeleteJob(id) ==
    /\ id \in RowIds(jobs)
    /\ \A k \in DOMAIN matches : matches[k].jobId # id
    /\ jobs' = RemoveWhere(jobs, id)
    /\ UNCHANGED <<resumes, matches, nextJobId, nextMatchId, updates, invs>>

\* updateResume: db.update(resumes).set({analysis}).where(eq(resumes.id, id))
UpdateAnalysis(r, a) ==
    /\ resumes[r].present
    /\ updates < MaxUpdates
    /\ resumes[r].analysis # Analysed(a)
    /\ resumes' = [resumes EXCEPT ![r].analysis = Analysed(a)]
    /\ updates' = updates + 1
    /\ UNCHANGED <<jobs, matches, nextJobId, nextMatchId, invs>>

\* jobController.post('/match/:resumeId') receives a request
MatchRequest(r) ==
    /\ Len(invs) < MaxInvocations
    /\ invs' = Append(invs, NewRequest(r))
    /\ UNCHANGED dbvars

\* ResumeService.getResumeById answers; 404, 400, or the call of matchJobsWithResume
GetResume(k) ==
    LET v == invs[k]
        row == resumes[v.resumeId]
    IN  /\ v.pc = "getResume"
        /\ invs' = [invs EXCEPT ![k] =
              IF RouteAnswer(row) # 0
              THEN [v EXCEPT !.pc = "done", !.status = RouteAnswer(row),
                             !.reads = v.reads + 1]
              ELSE [v EXCEPT !.pc = "select", !.analysis = row.analysis.value,
                             !.reads = v.reads + 1, !.called = TRUE]]
        /\ UNCHANGED dbvars

\* const allJobs = await db.select().from(jobs)
SelectJobs(k) ==
    /\ invs[k].pc = "select"
    /\ invs' = [invs EXCEPT ![k].pc = "loop", ![k].allJobs = jobs,
                            ![k].reads = invs[k].reads + 1]
    /\ UNCHANGED dbvars

\* one iteration of for (const job of allJobs)
LoopStep(k) ==
    LET v == invs[k]
        job == v.allJobs[v.i]
        h == HeuristicScore(job, v.analysis)
        row == [id |-> nextMatchId + 1, resumeId |-> v.resumeId,
                jobId |-> job.id, score |-> h.score]
        tried == Append(v.attempted,
                        [resumeId |-> v.resumeId, jobId |-> job.id, score |-> h.score])
    IN  /\ v.pc = "loop"
        /\ v.i <= Len(v.allJobs)
        /\ IF ~IsMatch(h.score)
           THEN /\ invs' = [invs EXCEPT ![k].i = v.i + 1]
                /\ UNCHANGED dbvars
           ELSE IF ~ForeignKeysHold(row)
           THEN \* the insert is rejected and matchJobsWithResume throws
                /\ invs' = [invs EXCEPT ![k].pc = "failed", ![k].status = 500,
                                        ![k].attempted = tried]
                /\ UNCHANGED dbvars
           ELSE /\ matches' = InsertOnConflictDoNothing(matches, row)
                /\ nextMatchId' = nextMatchId + 1
                /\ invs' = [invs EXCEPT
                      ![k].i = v.i + 1,
                      ![k].attempted = tried,
                      ![k].matchedJobs = Append(v.matchedJobs,
                          [job |-> job, score |-> h.score,
                           matchedSkills |-> h.matchedSkills])]
                /\ UNCHANGED <<resumes, jobs, nextJobId, updates>>

\* return matchedJobs; the route answers 200
Return(k) ==
    /\ invs[k].pc = "loop"
    /\ invs[k].i > Len(invs[k].allJobs)
    /\ invs' = [invs EXCEPT ![k].pc = "done", ![k].status = 200]
    /\ UNCHANGED dbvars

Next ==
    \/ \E c \in StoreJobPool : CreateJob(c) /\ UNCHANGED <<svars, rvars, fvars, xvars>>
    \/ \E id \in RowIds(jobs) : DeleteJob(id) /\ UNCHANGED <<svars, rvars, fvars, xvars>>
    \/ \E r \in ResumeIds, a \in StoreAnalysisPool : UpdateAnalysis(r, a) /\ UNCHANGED <<svars, rvars, fvars, xvars>>
    \/ \E r \in ResumeIds : MatchRequest(r) /\ UNCHANGED <<svars, rvars, fvars, xvars>>
    \/ \E k \in DOMAIN invs : GetResume(k) /\ UNCHANGED <<svars, rvars, fvars, xvars>>
    \/ \E k \in DOMAIN invs : SelectJobs(k) /\ UNCHANGED <<svars, rvars, fvars, xvars>>
    \/ \E k \in DOMAIN invs : LoopStep(k) /\ UNCHANGED <<svars, rvars, fvars, xvars>>
    \/ \E k \in DOMAIN invs : Return(k) /\ UNCHANGED <<svars, rvars, fvars, xvars>>

Spec == Init /\ [][Next]_vars

\* SpecMatch: one request alone with the job and resume operations around it
FirstRequest(r) ==
    /\ invs = <<>>
    /\ MatchRequest(r)

NextMatch ==
    \/ \E c \in StoreJobPool : CreateJob(c) /\ UNCHANGED <<svars, rvars, fvars, xvars>>
    \/ \E id \in RowIds(jobs) : DeleteJob(id) /\ UNCHANGED <<svars, rvars, fvars, xvars>>
    \/ \E r \in ResumeIds, a \in StoreAnalysisPool : UpdateAnalysis(r, a) /\ UNCHANGED <<svars, rvars, fvars, xvars>>
    \/ \E r \in RequestIds : FirstRequest(r) /\ UNCHANGED <<svars, rvars, fvars, xvars>>
    \/ \E k \in DOMAIN invs : GetResume(k) /\ UNCHANGED <<svars, rvars, fvars, xvars>>
    \/ \E k \in DOMAIN invs : SelectJobs(k) /\ UNCHANGED <<svars, rvars, fvars, xvars>>
    \/ \E k \in DOMAIN invs : LoopStep(k) /\ UNCHANGED <<svars, rvars, fvars, xvars>>
    \/ \E k \in DOMAIN invs : Return(k) /\ UNCHANGED <<svars, rvars, fvars, xvars>>

SpecMatch == Init /\ [][NextMatch]_vars

\* the rows of the matches table for one (resumeId, jobId) pair
PairRows(r, j) ==
    { k \in DOMAIN matches : matches[k].resumeId = r /\ matches[k].jobId = j }

\* C1: in every reachable state of the store, after any interleaving of
\* matchJobsWithResume invocations, the matches table holds at most one row
\* for each (resumeId, jobId) pair.
C1_AtMostOneRowPerPair ==
    \A a, b \in DOMAIN matches :
        (matches[a].resumeId = matches[b].resumeId
            /\ matches[a].jobId = matches[b].jobId) => a = b

\* the requests that wrote, or tried to write, a Match row for the pair (r, j)
Writers(r, j) ==
    { k \in DOMAIN invs :
        /\ invs[k].resumeId = r
        /\ \E n \in DOMAIN invs[k].attempted : invs[k].attempted[n].jobId = j }

\* C2: when the match operation has run twice, one run after the other, for
\* the same resume while job j stays persisted, exactly one Match row exists
\* for (resumeId, j) and its score is the score the first run wrote, also
\* when the second run computed another score.
C2_SecondRunLeavesFirstRow ==
    \A k1, k2 \in DOMAIN invs :
        \A n1 \in DOMAIN invs[k1].attempted, n2 \in DOMAIN invs[k2].attempted :
            LET r == invs[k1].resumeId
                j == invs[k1].attempted[n1].jobId
            IN  ( /\ k1 \in invs[k2].after
                  /\ invs[k1].status = 200 /\ invs[k2].status = 200
                  /\ invs[k2].resumeId = r
                  /\ invs[k2].attempted[n2].jobId = j
                  /\ Writers(r, j) = {k1, k2} )
                => /\ Cardinality(PairRows(r, j)) = 1
                   /\ \A m \in PairRows(r, j) :
                        matches[m].score = invs[k1].attempted[n1].score

RECURSIVE PositiveJobs(_, _, _)
\* of the first n jobs, those whose heuristic score is above 0, as result entries
PositiveJobs(allJobs, analysis, n) ==
    IF n = 0 THEN <<>>
    ELSE LET h == HeuristicScore(allJobs[n], analysis)
         IN  IF h.score > 0
             THEN Append(PositiveJobs(allJobs, analysis, n - 1),
                         [job |-> allJobs[n], score |-> h.score,
                          matchedSkills |-> h.matchedSkills])
             ELSE PositiveJobs(allJobs, analysis, n - 1)

WritesOf(r, entries) ==
    [n \in DOMAIN entries |->
        [resumeId |-> r, jobId |-> entries[n].job.id, score |-> entries[n].score]]

\* C10: of the jobs one invocation has examined, exactly those with a score
\* above 0 are in the array it returns, and an insert of (resumeId, jobId,
\* score) has been attempted for exactly those, in order; a job with score 0
\* causes no write and is not returned.
C10_MatchIffPositive ==
    \A k \in DOMAIN invs :
        LET v == invs[k]
        IN  /\ v.pc \in {"loop", "done"} =>
                /\ v.matchedJobs = PositiveJobs(v.allJobs, v.analysis, v.i - 1)
                /\ v.attempted = WritesOf(v.resumeId, v.matchedJobs)
            /\ v.status = 200 => v.i = Len(v.allJobs) + 1
            /\ v.pc = "failed" =>
                v.attempted =
                    WritesOf(v.resumeId, PositiveJobs(v.allJobs, v.analysis, v.i))

\* a request answered 200 that examined two jobs, returned one and wrote one row
C10_Witness ==
    \E k \in DOMAIN invs :
        /\ invs[k].status = 200
        /\ Len(invs[k].allJobs) = 2
        /\ Len(invs[k].matchedJobs) = 1
        /\ Len(invs[k].attempted) = 1
        /\ Len(matches) = 1

\* the request's matchedJobs, its attempted inserts and the matches table
\* hold nothing for the job
NotReported(v, job) ==
    /\ \A e \in DOMAIN v.matchedJobs : v.matchedJobs[e].job.id # job.id
    /\ \A e \in DOMAIN v.attempted : v.attempted[e].jobId # job.id
    /\ \A m \in DOMAIN matches :
          ~(matches[m].resumeId = v.resumeId /\ matches[m].jobId = job.id)

\* C12: for a resume whose skill list is empty, the score of every job is 0,
\* or 0.5 when the experience bonus applies (experience nonzero and the
\* description contains "experience"); a job scored 0 is neither returned nor
\* persisted as a Match, and only a job with the bonus is.
C12_EmptySkillList ==
    \A k \in DOMAIN invs :
        LET v == invs[k]
        IN  (v.pc \in {"loop", "done"} /\ v.analysis.skills = ArrayOf(<<>>)) =>
                \A n \in 1 .. (v.i - 1) :
                    LET job == v.allJobs[n]
                        bonus == /\ v.analysis.experience.defined
                                 /\ v.analysis.experience.value # 0
                                 /\ ~job.description.isNull
                                 /\ ContainsCI(job.description.text, ExperienceWord)
                    IN  /\ HeuristicScore(job, v.analysis).score =
                              (IF bonus THEN ExperienceBonus ELSE 0)
                        /\ ~bonus => NotReported(v, job)
                        /\ bonus => \E e \in DOMAIN v.matchedJobs :
                                        /\ v.matchedJobs[e].job = job
                                        /\ v.matchedJobs[e].score = ExperienceBonus
                                        /\ v.matchedJobs[e].matchedSkills = <<>>

\* a request for the resume with no skills answered 200 after examining a job
\* with skill tags whose score was 0: nothing returned, nothing written
C12_Witness ==
    \E k \in DOMAIN invs :
        /\ invs[k].status = 200
        /\ invs[k].analysis.skills = ArrayOf(<<>>)
        /\ \E n \in DOMAIN invs[k].allJobs :
              /\ invs[k].allJobs[n].description = Text(DescExpert)
              /\ NotReported(invs[k], invs[k].allJobs[n])
        /\ \E n \in DOMAIN invs[k].allJobs :
              invs[k].allJobs[n].description = Text(DescRequired)

C13_State ==
    \A k \in DOMAIN invs :
        LET v == invs[k]
        IN  /\ v.status \in {0, 200, 400, 404, 500}
            /\ ~IsUuid(v.resumeId) =>
                  v.status = 400 /\ v.pc = "done" /\ v.reads = 0
            /\ v.status = 404 => IsUuid(v.resumeId) /\ v.reads = 1
            /\ (v.status = 400 /\ IsUuid(v.resumeId)) => v.reads = 1
            /\ v.status \in {400, 404} =>
                  /\ ~v.called
                  /\ v.pc = "done"
                  /\ v.allJobs = <<>>
                  /\ v.attempted = <<>>
                  /\ matches = <<>>
            /\ v.called => IsUuid(v.resumeId) /\ v.reads >= 1
            /\ v.status = 200 => v.called /\ v.pc = "done"
            /\ v.status = 500 => v.called /\ v.pc = "failed"

C13_Step ==
    \A k \in DOMAIN invs :
        LET v == invs[k]
            w == invs'[k]
            row == resumes[v.resumeId]
        IN  /\ (v.pc = "getResume" /\ w # v) =>
                  IF ~row.present THEN w.status = 404 /\ w.pc = "done"
                  ELSE IF row.analysis.isNull THEN w.status = 400 /\ w.pc = "done"
                  ELSE /\ w.status = 0
                       /\ w.called
                       /\ w.pc = "select"
                       /\ w.analysis = row.analysis.value
            /\ (v.pc = "loop" /\ w.pc = "done") =>
                  w.status = 200 /\ w.matchedJobs = v.matchedJobs
            /\ v.pc \in {"done", "failed"} => w = v

\* C13: POST /jobs/match/:resumeId answers 400 for a resumeId that is no UUID
\* (before any query), else 404 when the lookup finds no resume, else 400
\* when the resume found has no analysis, and only otherwise calls
\* matchJobsWithResume and answers 200 with the array it returns; a request
\* answered 400 or 404 never called matchJobsWithResume and wrote no Match row.
C13_RouteGuards == []C13_State /\ [][C13_Step]_vars

\* the resume exists without analysis while jobs are persisted: answered 400
\* after the one lookup, nothing written
C13_Witness ==
    \E k \in DOMAIN invs :
        /\ invs[k].status = 400
        /\ invs[k].resumeId = "r2"
        /\ resumes["r2"].present
        /\ resumes["r2"].analysis.isNull
        /\ invs[k].reads = 1
        /\ Len(jobs) = MaxJobs
        /\ matches = <<>>

\* SpecOrder: one request over jobs whose scores differ
OrderJobPool ==
    StoreJobPool
        \cup { [skills |-> ArrayOf(<<Python, SQL>>), description |-> NullText] }

NextOrder ==
    \/ \E c \in OrderJobPool : CreateJob(c) /\ UNCHANGED <<svars, rvars, fvars, xvars>>
    \/ \E r \in RequestIds : FirstRequest(r) /\ UNCHANGED <<svars, rvars, fvars, xvars>>
    \/ \E k \in DOMAIN invs : GetResume(k) /\ UNCHANGED <<svars, rvars, fvars, xvars>>
    \/ \E k \in DOMAIN invs : SelectJobs(k) /\ UNCHANGED <<svars, rvars, fvars, xvars>>
    \/ \E k \in DOMAIN invs : LoopStep(k) /\ UNCHANGED <<svars, rvars, fvars, xvars>>
    \/ \E k \in DOMAIN invs : Return(k) /\ UNCHANGED <<svars, rvars, fvars, xvars>>

SpecOrder == Init /\ [][NextOrder]_vars

\* the place of a job in the list the request selected
PlaceOf(v, job) == CHOOSE n \in DOMAIN v.allJobs : v.allJobs[n] = job

\* C17: the array POST /jobs/match/:resumeId returns is ordered by score
\* descending, equal scores in the order of the persisted job list.
C17_ReturnedRanked ==
    \A k \in DOMAIN invs :
        LET v == invs[k]
        IN  v.status = 200 =>
                \A a, b \in DOMAIN v.matchedJobs :
                    a < b =>
                        /\ v.matchedJobs[a].score >= v.matchedJobs[b].score
                        /\ v.matchedJobs[a].score = v.matchedJobs[b].score =>
                              PlaceOf(v, v.matchedJobs[a].job)
                                  < PlaceOf(v, v.matchedJobs[b].job)

-----------------------------------------------------------------------------
(* RecommendationService: scrape, score with the LLM, rank                  *)

\* if (compatibility.score >= 20)
Threshold == 20
\* .slice(0, 10)
TopN == 10
\* return jobs.slice(0, 15)
IndeedCap == 15
\* data.slice(1, 16)
RemoteCap == 15

\* bound: postings one upstream response yields
MaxPostings == 2

Min(a, b) == IF a <= b THEN a ELSE b

\* what an upstream job source answers: a failure, or a page or feed that
\* yields `count` postings
UpstreamPool ==
    { [kind |-> k, count |-> 0] : k \in {"network-error", "http-error", "parse-error"} }
        \cup { [kind |-> "ok", count |-> c] : c \in 0 .. MaxPostings }

Postings(source, n) == [k \in 1 .. n |-> [source |-> source, n |-> k]]

\* an adapter whose failures escape to its caller
AdapterRaises(resp, source, cap) ==
    [fetched |-> TRUE, kind |-> resp.kind, threw |-> resp.kind # "ok",
     jobs |-> IF resp.kind = "ok" THEN Postings(source, Min(resp.count, cap)) ELSE <<>>]

\* the shape shared by scrapeIndeedJobs and scrapeRemoteOkJobs: a rejected
\* fetch, a non-ok status and a throwing parse all end in `return []`
Adapter(resp, source, cap) ==
    [fetched |-> TRUE, kind |-> resp.kind, threw |-> FALSE,
     jobs |-> IF resp.kind = "ok" THEN Postings(source, Min(resp.count, cap)) ELSE <<>>]

\* scrapeIndeedJobs returning `jobs` without the slice
scrapeIndeedJobsUncapped(resp) == Adapter(resp, "Indeed", resp.count)

scrapeIndeedJobs(resp) == Adapter(resp, "Indeed", IndeedCap)

\* skills.some(...) over the list `resume.analysis.skills || []`: with no
\* skill to look for, no feed entry passes the filter
Matching(resp, skills) ==
    IF skills = "array" THEN resp ELSE [resp EXCEPT !.count = 0]

\* scrapeRemoteOkJobs without its try/catch
scrapeRemoteOkJobsRaises(resp, skills) ==
    AdapterRaises(Matching(resp, skills), "RemoteOK", RemoteCap)

\* `count` is the number of examined feed entries that pass the skill filter
scrapeRemoteOkJobs(resp, skills) ==
    Adapter(Matching(resp, skills), "RemoteOK", RemoteCap)

\* the values a JSON document can give the score field; NumStr(n) is the
\* string of the decimal digits of n
Num(n) == [type |-> "number", num |-> n]
NumStr(n) == [type |-> "string", num |-> n]
Undefined == [type |-> "undefined", num |-> 0]

\* ToNumber, as >= and - apply it: undefined gives NaN
IsNaN(v) == v.type = "undefined"
ToNumber(v) == v.num

ScorePool == { Undefined, Num(19), Num(20), Num(85), NumStr(85), Num(150) }

\* how one call of the LLM endpoint ends
LlmOutcomes ==
    { [kind |-> k, score |-> Undefined] :
        k \in {"network-error", "http-error", "bad-content", "null-document"} }
        \cup { [kind |-> "json", score |-> v] : v \in ScorePool }

\* the object of the catch block of analyzeJobCompatibility
Fallback ==
    [isNull |-> FALSE, score |-> Num(0), matchingSkills |-> <<>>,
     missingSkills |-> <<>>, reasoning |-> "Analysis failed"]

\* JSON.parse of a content that is a JSON object
Parsed(v) ==
    [isNull |-> FALSE, score |-> v, matchingSkills |-> <<"matching">>,
     missingSkills |-> <<"missing">>, reasoning |-> "llm"]

\* JSON.parse("null")
NullDocument ==
    [isNull |-> TRUE, score |-> Undefined, matchingSkills |-> <<>>,
     missingSkills |-> <<>>, reasoning |-> "null"]

\* analyzeJobCompatibility whose catch block only logs and returns nothing
analyzeWithoutFallback(outcome) ==
    IF outcome.kind = "json" THEN Parsed(outcome.score) ELSE NullDocument

analyzeJobCompatibility(outcome) ==
    IF outcome.kind = "json" THEN Parsed(outcome.score)
    ELSE IF outcome.kind = "null-document" THEN NullDocument
    ELSE Fallback

\* the threshold taken as score > 20
PassesStrictly(score) == ~IsNaN(score) /\ ToNumber(score) > Threshold

\* compatibility.score >= 20 (false when ToNumber gives NaN)
PassesThreshold(score) == ~IsNaN(score) /\ ToNumber(score) >= Threshold

\* recommendations.push({...})
Recommendation(job, c) ==
    [job |-> job, compatibilityScore |-> c.score,
     matchingSkills |-> c.matchingSkills, missingSkills |-> c.missingSkills,
     reasoning |-> c.reasoning]

\* (a, b) => b.compatibilityScore - a.compatibilityScore is positive: b goes first
GoesBefore(b, a) == ToNumber(b.compatibilityScore) > ToNumber(a.compatibilityScore)

RECURSIVE InsertStable(_, _)
\* x placed after every element it does not go before (Array.prototype.sort is stable)
InsertStable(sorted, x) ==
    IF sorted = <<>> THEN <<x>>
    ELSE IF GoesBefore(x, Head(sorted)) THEN <<x>> \o sorted
    ELSE <<Head(sorted)>> \o InsertStable(Tail(sorted), x)

RECURSIVE Sort(_)
Sort(list) ==
    IF list = <<>> THEN <<>>
    ELSE InsertStable(Sort(SubSeq(list, 1, Len(list) - 1)), list[Len(list)])

Slice(list, n) == SubSeq(list, 1, Min(n, Len(list)))

\* the truncation made before the sort
RankCutBeforeSort(recommendations) == Sort(Slice(recommendations, TopN))

\* the truncation without the sort
RankWithoutSort(recommendations) == Slice(recommendations, TopN)

\* recommendations.sort(...).slice(0, 10)
Rank(recommendations) == Slice(Sort(recommendations), TopN)

-----------------------------------------------------------------------------
(* SpecRec: one generateRecommendations invocation                          *)

RecResumePool ==
    { [present |-> FALSE, analysed |-> FALSE, skills |-> "none"],
      [present |-> TRUE, analysed |-> FALSE, skills |-> "none"],
      [present |-> TRUE, analysed |-> TRUE, skills |-> "array"],
      [present |-> TRUE, analysed |-> TRUE, skills |-> "missing"],
      [present |-> TRUE, analysed |-> TRUE, skills |-> "not-array"] }

\* a guard that tests the row alone
ResumePresent(resume) == resume.present

\* the negation of (!resume || !resume.analysis)
ResumeUsable(resume) == resume.present /\ resume.analysed

Threw(message) == [kind |-> "threw", list |-> <<>>, error |-> message]
Returned(list) == [kind |-> "returned", list |-> list, error |-> "none"]

InitRec ==
    /\ StoreIdle
    /\ ScoreIdle
    /\ FenceIdle
    /\ ScrapeIdle
    /\ rec_pc = "idle"
    /\ rec_resume \in RecResumePool
    /\ rec_net = <<>>
    /\ rec_indeed = [fetched |-> FALSE, kind |-> "none", threw |-> FALSE, jobs |-> <<>>]
    /\ rec_remote = [fetched |-> FALSE, kind |-> "none", threw |-> FALSE, jobs |-> <<>>]
    /\ rec_jobs = <<>>
    /\ rec_i = 0
    /\ rec_compat = <<>>
    /\ rec_last = "none"
    /\ rec_recs = <<>>
    /\ rec_result = [kind |-> "none", list |-> <<>>, error |-> "none"]
    /\ rec_id = "uuid"
    /\ rec_response = NoResponse

\* a pipeline that stores a Match row at each of its steps
RecFramePersisting ==
    /\ matches' = Append(matches, [id |-> nextMatchId + 1, resumeId |-> "r1",
                                   jobId |-> 0, score |-> 0])
    /\ nextMatchId' = nextMatchId + 1
    /\ UNCHANGED <<resumes, jobs, nextJobId, updates, invs>>
    /\ UNCHANGED <<svars, fvars, xvars>>

\* what the recommendation endpoint leaves alone: its one database access is
\* db.query.resumes.findFirst, it writes no table
RecFrame == UNCHANGED <<mvars, svars, fvars, xvars>>

\* a controller without the branch for the empty array
RespondWithoutMessage(result) ==
    IF result.kind = "threw"
    THEN [status |-> 500, success |-> FALSE,
          message |-> "Failed to generate recommendations",
          error |-> result.error, data |-> <<>>]
    ELSE [status |-> 200, success |-> TRUE, message |-> "none",
          error |-> "none", data |-> result.list]

\* the rest of ResumeController.generateRecommendations once the service
\* call has settled: the catch block answers 500, an empty array gets the
\* message, any other array is the data
Respond(result) ==
    IF result.kind = "threw"
    THEN [status |-> 500, success |-> FALSE,
          message |-> "Failed to generate recommendations",
          error |-> result.error, data |-> <<>>]
    ELSE IF Len(result.list) = 0
    THEN [status |-> 200, success |-> TRUE,
          message |-> "No strong job matches found.", error |-> "none",
          data |-> <<>>]
    ELSE [status |-> 200, success |-> TRUE, message |-> "none",
          error |-> "none", data |-> result.list]

\* generateRecommendations up to its first outbound call: findFirst, the
\* guard, skills.join, then scrapeJobs -> scrapeIndeedJobs -> fetch
FindResume ==
    /\ rec_pc = "idle"
    /\ IF ~ResumeUsable(rec_resume)
       THEN /\ rec_pc' = "failed"
            /\ rec_result' = Threw("Resume not found or not analyzed")
            /\ UNCHANGED rec_net
       ELSE IF rec_resume.skills = "not-array"
       THEN /\ rec_pc' = "failed"
            /\ rec_result' = Threw("TypeError")
            /\ UNCHANGED rec_net
       ELSE /\ rec_pc' = "indeed"
            /\ rec_net' = Append(rec_net, "indeed")
            /\ UNCHANGED rec_result
    /\ UNCHANGED <<rec_resume, rec_indeed, rec_remote, rec_jobs, rec_i,
                   rec_compat, rec_last, rec_recs>>
    /\ rec_response' = IF rec_pc' \in {"done", "failed"}
                       THEN Respond(rec_result') ELSE rec_response
    /\ UNCHANGED rec_id
    /\ RecFrame

\* a scoring stage that issues the calls for all candidates at once
BeginScoringAllAtOnce(allJobs) ==
    /\ rec_jobs' = allJobs
    /\ IF allJobs = <<>>
       THEN /\ rec_pc' = "done"
            /\ rec_result' = Returned(Rank(rec_recs))
            /\ UNCHANGED <<rec_net, rec_i>>
       ELSE /\ rec_pc' = "scoring"
            /\ rec_i' = 1
            /\ rec_net' = rec_net \o [k \in 1 .. Len(allJobs) |-> "llm"]
            /\ UNCHANGED rec_result

\* scrapeJobs has its job list: the for-loop of generateRecommendations starts
\* (first LLM call issued), or with no job the empty ranking is returned
BeginScoring(allJobs) ==
    /\ rec_jobs' = allJobs
    /\ IF allJobs = <<>>
       THEN /\ rec_pc' = "done"
            /\ rec_result' = Returned(Rank(rec_recs))
            /\ UNCHANGED <<rec_net, rec_i>>
       ELSE /\ rec_pc' = "scoring"
            /\ rec_i' = 1
            /\ rec_net' = Append(rec_net, "llm")
            /\ UNCHANGED rec_result

\* a scrapeJobs that hands over the Indeed postings without calling the
\* second adapter
IndeedDoneSkipsRemote(resp) ==
    /\ rec_pc = "indeed"
    /\ rec_indeed' = scrapeIndeedJobs(resp)
    /\ BeginScoring(rec_indeed'.jobs)
    /\ UNCHANGED <<rec_resume, rec_remote, rec_compat, rec_last, rec_recs>>
    /\ rec_response' = IF rec_pc' \in {"done", "failed"}
                       THEN Respond(rec_result') ELSE rec_response
    /\ UNCHANGED rec_id
    /\ RecFrame

\* scrapeIndeedJobs settles; scrapeJobs goes on to scrapeRemoteOkJobs, or its
\* catch block takes over
IndeedDone(resp) ==
    /\ rec_pc = "indeed"
    /\ rec_indeed' = scrapeIndeedJobs(resp)
    /\ IF rec_indeed'.threw
       THEN BeginScoring(<<>>)
       ELSE /\ rec_pc' = "remote"
            /\ rec_net' = Append(rec_net, "remoteok")
            /\ UNCHANGED <<rec_jobs, rec_i, rec_result>>
    /\ UNCHANGED <<rec_resume, rec_remote, rec_compat, rec_last, rec_recs>>
    /\ rec_response' = IF rec_pc' \in {"done", "failed"}
                       THEN Respond(rec_result') ELSE rec_response
    /\ UNCHANGED rec_id
    /\ RecFrame

\* scrapeRemoteOkJobs settles; allJobs.push(...indeedJobs, ...remoteJobs)
RemoteDone(resp) ==
    /\ rec_pc = "remote"
    /\ rec_remote' = scrapeRemoteOkJobs(resp, rec_resume.skills)
    /\ IF rec_remote'.threw
       THEN BeginScoring(<<>>)
       ELSE BeginScoring(rec_indeed.jobs \o rec_remote'.jobs)
    /\ UNCHANGED <<rec_resume, rec_indeed, rec_compat, rec_last, rec_recs>>
    /\ rec_response' = IF rec_pc' \in {"done", "failed"}
                       THEN Respond(rec_result') ELSE rec_response
    /\ UNCHANGED rec_id
    /\ RecFrame

\* a loop that calls the LLM again for the same candidate after a failure
LlmDoneRetries(outcome) ==
    /\ rec_pc = "scoring"
    /\ outcome.kind \in {"network-error", "http-error", "bad-content"}
    /\ rec_last' = outcome.kind
    /\ rec_net' = Append(rec_net, "llm")
    /\ UNCHANGED <<rec_pc, rec_result, rec_recs, rec_i, rec_compat>>
    /\ UNCHANGED <<rec_resume, rec_indeed, rec_remote, rec_jobs>>
    /\ UNCHANGED <<rec_response, rec_id>>
    /\ RecFrame

\* the LLM call for jobs[rec_i] settles: the rest of that loop iteration, then
\* the next call, or the ranking and the return
LlmDone(outcome) ==
    LET job == rec_jobs[rec_i]
        c == analyzeJobCompatibility(outcome)
        pushed == IF PassesThreshold(c.score)
                  THEN Append(rec_recs, Recommendation(job, c))
                  ELSE rec_recs
    IN  /\ rec_pc = "scoring"
        /\ rec_last' = outcome.kind
        /\ rec_compat' = Append(rec_compat, c)
        /\ IF c.isNull
           THEN \* compatibility.score on null
                /\ rec_pc' = "failed"
                /\ rec_result' = Threw("TypeError")
                /\ UNCHANGED <<rec_recs, rec_i, rec_net>>
           ELSE /\ rec_recs' = pushed
                /\ rec_i' = rec_i + 1
                /\ IF rec_i < Len(rec_jobs)
                   THEN /\ rec_net' = Append(rec_net, "llm")
                        /\ UNCHANGED <<rec_pc, rec_result>>
                   ELSE /\ rec_pc' = "done"
                        /\ rec_result' = Returned(Rank(pushed))
                        /\ UNCHANGED rec_net
        /\ UNCHANGED <<rec_resume, rec_indeed, rec_remote, rec_jobs>>
        /\ rec_response' = IF rec_pc' \in {"done", "failed"}
                           THEN Respond(rec_result') ELSE rec_response
        /\ UNCHANGED rec_id
        /\ RecFrame

NextRec ==
    \/ FindResume
    \/ \E resp \in UpstreamPool : IndeedDone(resp)
    \/ \E resp \in UpstreamPool : RemoteDone(resp)
    \/ \E outcome \in LlmOutcomes : LlmDone(outcome)

SpecRec == InitRec /\ [][NextRec]_vars

\* SpecEndpoint: GET /resumes/:id/recommendations, controller and service
InitEndpoint ==
    /\ StoreIdle
    /\ ScoreIdle
    /\ FenceIdle
    /\ ScrapeIdle
    /\ rec_pc = "idle"
    /\ rec_id \in {"uuid", "not-a-uuid"}
    /\ rec_resume \in RecResumePool
    /\ rec_id = "not-a-uuid" => ~rec_resume.present
    /\ rec_net = <<>>
    /\ rec_indeed = [fetched |-> FALSE, kind |-> "none", threw |-> FALSE, jobs |-> <<>>]
    /\ rec_remote = [fetched |-> FALSE, kind |-> "none", threw |-> FALSE, jobs |-> <<>>]
    /\ rec_jobs = <<>>
    /\ rec_i = 0
    /\ rec_compat = <<>>
    /\ rec_last = "none"
    /\ rec_recs = <<>>
    /\ rec_result = [kind |-> "none", list |-> <<>>, error |-> "none"]
    /\ rec_response = NoResponse

\* uuidSchema.safeParse(id) fails: 400, the service is not called
Reject ==
    /\ rec_pc = "idle"
    /\ rec_id # "uuid"
    /\ rec_pc' = "rejected"
    /\ rec_response' = [status |-> 400, success |-> FALSE,
                        message |-> "Invalid resume ID", error |-> "none",
                        data |-> <<>>]
    /\ UNCHANGED <<rec_resume, rec_net, rec_indeed, rec_remote, rec_jobs, rec_i,
                   rec_compat, rec_last, rec_recs, rec_result, rec_id>>
    /\ RecFrame

\* the id is a UUID: RecommendationService.generateRecommendations(id)
CallService ==
    /\ rec_id = "uuid"
    /\ FindResume

NextEndpoint ==
    \/ Reject
    \/ CallService
    \/ \E resp \in UpstreamPool : IndeedDone(resp)
    \/ \E resp \in UpstreamPool : RemoteDone(resp)
    \/ \E outcome \in LlmOutcomes : LlmDone(outcome)

SpecEndpoint == InitEndpoint /\ [][NextEndpoint]_vars

FailureKinds == {"network-error", "http-error", "bad-content"}

\* the candidates scored so far whose compatibility is an object
Scored == { n \in DOMAIN rec_compat : ~rec_compat[n].isNull }

\* candidate n has a numeric score of at least 20
HasScoreOf20(n) ==
    /\ rec_compat[n].score.type # "undefined"
    /\ rec_compat[n].score.num >= 20

InList(list, n) == \E e \in DOMAIN list : list[e].job = rec_jobs[n]

LlmFailureStep ==
    /\ rec_pc = "scoring"
    /\ Len(rec_compat') = Len(rec_compat) + 1
    /\ rec_last' \in FailureKinds

C5_Step ==
    LlmFailureStep =>
        /\ rec_compat'[rec_i] =
              [isNull |-> FALSE, score |-> Num(0), matchingSkills |-> <<>>,
               missingSkills |-> <<>>, reasoning |-> "Analysis failed"]
        /\ rec_result'.kind # "threw"
        /\ rec_recs' = rec_recs
        /\ IF rec_i < Len(rec_jobs)
           THEN rec_pc' = "scoring" /\ rec_i' = rec_i + 1
                  /\ rec_net' = Append(rec_net, "llm")
           ELSE rec_pc' = "done"

C5_State ==
    rec_pc = "done" =>
        /\ Len(rec_compat) = Len(rec_jobs)
        /\ \A n \in DOMAIN rec_compat :
            /\ rec_compat[n].reasoning = "Analysis failed"
                  => ~InList(rec_result.list, n)
            /\ HasScoreOf20(n) => InList(rec_recs, n)

\* C5: a failed LLM call (network error, non-success status, unparseable
\* content) makes analyzeJobCompatibility return exactly {score: 0,
\* matchingSkills: [], missingSkills: [], reasoning: "Analysis failed"} and
\* raise nothing; that candidate is not in the returned list, every other
\* candidate is still scored and, with a score of at least 20, still listed
\* before truncation.
C5_FailureIsolated == []C5_State /\ [][C5_Step]_vars

\* returned after the first of two calls failed and the second scored 85
C5_Witness ==
    /\ rec_pc = "done"
    /\ Len(rec_jobs) >= 2
    /\ rec_compat[1].reasoning = "Analysis failed"
    /\ rec_compat[2].score = Num(85)
    /\ InList(rec_result.list, 2)
    /\ ~InList(rec_result.list, 1)

\* C6: when the resume is absent or has no analysis, the invocation ends with
\* the error "Resume not found or not analyzed" and issues no outbound call
\* (job source or LLM) at any point.
C6_FailFast ==
    (~rec_resume.present \/ ~rec_resume.analysed) =>
        /\ rec_net = <<>>
        /\ rec_pc \in {"idle", "failed"}
        /\ rec_pc = "failed" =>
              rec_result = [kind |-> "threw", list |-> <<>>,
                            error |-> "Resume not found or not analyzed"]

C6_Witness ==
    /\ rec_resume.present /\ ~rec_resume.analysed
    /\ rec_pc = "failed"
    /\ rec_result.error = "Resume not found or not analyzed"
    /\ rec_net = <<>>

\* C7: when one adapter of scrapeJobs fails, scrapeJobs raises nothing, the
\* other adapter is still invoked and every posting it produced is in the
\* result; the failing adapter contributes none.
C7_AdapterIsolated ==
    /\ (rec_indeed.fetched /\ rec_pc # "indeed") =>
          \E k \in DOMAIN rec_net : rec_net[k] = "remoteok"
    /\ rec_remote.fetched =>
          /\ rec_indeed.fetched
          /\ rec_jobs = rec_indeed.jobs \o rec_remote.jobs
          /\ rec_indeed.kind # "ok" => rec_indeed.jobs = <<>>
          /\ rec_remote.kind # "ok" => rec_remote.jobs = <<>>
          /\ rec_pc \in {"scoring", "done"} \/ rec_compat # <<>>

\* RemoteOK failed with a network error, the Indeed postings are all there
C7_Witness ==
    /\ rec_remote.fetched
    /\ rec_remote.kind = "network-error"
    /\ rec_indeed.kind = "ok"
    /\ Len(rec_indeed.jobs) = MaxPostings
    /\ rec_jobs = rec_indeed.jobs
    /\ rec_pc = "scoring"

-----------------------------------------------------------------------------
(* SpecRank: the last iteration of the scoring loop and the ranking, over   *)
(* candidate lists long enough for the truncation to act.  The invocation   *)
(* is taken up where Indeed has yielded n postings, RemoteOK none, and the  *)
(* first n - 1 candidates have each been scored at or above the threshold.  *)

\* bound: candidates of one invocation
MaxCandidates == 12

RankScorePool == { Num(20), Num(85) }

RECURSIVE LlmCalls(_)
LlmCalls(n) == IF n = 0 THEN <<>> ELSE Append(LlmCalls(n - 1), "llm")

InitRank ==
    /\ StoreIdle
    /\ ScoreIdle
    /\ FenceIdle
    /\ ScrapeIdle
    /\ \E n \in 1 .. MaxCandidates :
        \E scores \in [1 .. (n - 1) -> RankScorePool] :
            /\ rec_pc = "scoring"
            /\ rec_resume = [present |-> TRUE, analysed |-> TRUE, skills |-> "array"]
            /\ rec_indeed = scrapeIndeedJobs([kind |-> "ok", count |-> n])
            /\ rec_remote = scrapeRemoteOkJobs([kind |-> "ok", count |-> 0], rec_resume.skills)
            /\ rec_jobs = rec_indeed.jobs \o rec_remote.jobs
            /\ rec_net = <<"indeed", "remoteok">> \o LlmCalls(n)
            /\ rec_i = n
            /\ rec_compat = [k \in 1 .. (n - 1) |-> Parsed(scores[k])]
            /\ rec_last = IF n = 1 THEN "none" ELSE "json"
            /\ rec_recs = [k \in 1 .. (n - 1) |->
                              Recommendation(rec_jobs[k], Parsed(scores[k]))]
            /\ rec_result = [kind |-> "none", list |-> <<>>, error |-> "none"]
            /\ rec_id = "uuid"
            /\ rec_response = NoResponse

NextRank == \E outcome \in LlmOutcomes : LlmDone(outcome)

SpecRank == InitRank /\ [][NextRank]_vars

\* C3: the list generateRecommendations returns has at most 10 elements and
\* its compatibilityScore values are non-increasing from first to last.
C3_TopTenSorted ==
    rec_pc = "done" =>
        /\ rec_result.kind = "returned"
        /\ Len(rec_result.list) <= 10
        /\ \A a, b \in DOMAIN rec_result.list :
              a < b => rec_result.list[a].compatibilityScore.num
                         >= rec_result.list[b].compatibilityScore.num

\* eleven candidates passed, not in score order; ten are returned, sorted
C3_Witness ==
    /\ rec_pc = "done"
    /\ Len(rec_recs) = 11
    /\ rec_recs[1].compatibilityScore.num < rec_recs[2].compatibilityScore.num
    /\ Len(rec_result.list) = 10
    /\ rec_result.list[1].compatibilityScore.num
          > rec_result.list[10].compatibilityScore.num

-----------------------------------------------------------------------------
(* analyzeJobCompatibility: from the content of the LLM response to the     *)
(* returned object                                                          *)

\* the character U+0060 (a TLA+ string cannot hold it)
BT == "U+0060"

Whitespace == {" ", "\n", "\t", "\r"}

RECURSIVE TrimStart(_)
TrimStart(str) ==
    IF str # <<>> /\ Head(str) \in Whitespace THEN TrimStart(Tail(str)) ELSE str

RECURSIVE TrimEnd(_)
TrimEnd(str) ==
    IF str # <<>> /\ str[Len(str)] \in Whitespace
    THEN TrimEnd(SubSeq(str, 1, Len(str) - 1)) ELSE str

\* String.prototype.trim
Trim(str) == TrimEnd(TrimStart(str))

\* str.replace(/^pre/, "")
ReplaceStart(str, pre) ==
    IF Len(str) >= Len(pre) /\ SubSeq(str, 1, Len(pre)) = pre
    THEN SubSeq(str, Len(pre) + 1, Len(str)) ELSE str

\* str.replace(/suf$/, "")
ReplaceEnd(str, suf) ==
    IF Len(str) >= Len(suf) /\ SubSeq(str, Len(str) - Len(suf) + 1, Len(str)) = suf
    THEN SubSeq(str, 1, Len(str) - Len(suf)) ELSE str

FenceJson == <<BT,BT,BT,"j","s","o","n">>
Fence == <<BT,BT,BT>>
EmptyObject == <<"{","}">>

\* content?.trim() || "{}"
TrimOrDefault(content) ==
    IF Trim(content) = <<>> THEN EmptyObject ELSE Trim(content)

\* the cleaning that knows the ```json opener only
CleanContentJsonFenceOnly(content) ==
    Trim(ReplaceEnd(ReplaceStart(TrimOrDefault(content), FenceJson), Fence))

\* content.replace(/^```json/, "").replace(/^```/, "").replace(/```$/, "").trim()
CleanContent(content) ==
    Trim(ReplaceEnd(ReplaceStart(ReplaceStart(TrimOrDefault(content), FenceJson),
                                 Fence),
                    Fence))

\* the object a JSON text denotes, in the fields the pipeline reads
JsonObject(score, reasoning) ==
    [isNull |-> FALSE, score |-> score, matchingSkills |-> <<>>,
     missingSkills |-> <<>>, reasoning |-> reasoning]

\* JSON documents and what JSON.parse makes of each
JsonDocs ==
    { [text |-> <<"{","\"","s","c","o","r","e","\"",":","8","5","}">>,
       value |-> JsonObject(Num(85), "undefined")],
      [text |-> <<"{","\"","s","c","o","r","e","\"",":","2","0",",","\"","r","e","a","s","o","n","i","n","g","\"",":","\"",BT,BT,BT,"\"","}">>,
       value |-> JsonObject(Num(20), <<BT, BT, BT>>)],
      [text |-> <<"{"," ","\"","s","c","o","r","e","\"",":"," ","\"","8","5","\""," ","}">>,
       value |-> JsonObject(NumStr(85), "undefined")],
      [text |-> <<"{","}">>,
       value |-> JsonObject(Undefined, "undefined")],
      [text |-> <<"n","u","l","l">>,
       value |-> NullDocument],
      [text |-> <<"\"",BT,BT,BT,"\"">>,
       value |-> JsonObject(Undefined, "string")] }

\* JSON.parse: white space around the document is skipped; a text that is
\* no document raises SyntaxError
JSONParse(text) ==
    IF \E d \in JsonDocs : d.text = Trim(text)
    THEN [threw |-> FALSE,
          value |-> (CHOOSE d \in JsonDocs : d.text = Trim(text)).value]
    ELSE [threw |-> TRUE, value |-> Fallback]

\* analyzeJobCompatibility from the content on: clean, parse, or the catch block
ParseContent(content) ==
    LET r == JSONParse(CleanContent(content))
    IN  IF r.threw THEN Fallback ELSE r.value

\* the wrappings: ```json or ```, with and without line breaks and blanks
FencePool ==
    { [open |-> o, close |-> c] :
        o \in { <<BT,BT,BT,"j","s","o","n","\n">>, <<BT,BT,BT,"\n">>,
                <<BT,BT,BT,"j","s","o","n">>, <<BT,BT,BT>>,
                <<" ",BT,BT,BT,"j","s","o","n","\r","\n">> },
        c \in { <<"\n",BT,BT,BT>>, <<BT,BT,BT>>, <<"\n",BT,BT,BT,"\n">> } }

Wrap(fence, doc) == fence.open \o doc \o fence.close

-----------------------------------------------------------------------------
(* SpecFence: one document analysed as it is and inside a code fence        *)

InitFence ==
    /\ StoreIdle
    /\ ScoreIdle
    /\ RecIdle
    /\ ScrapeIdle
    /\ f_doc \in { d.text : d \in JsonDocs }
    /\ f_fence \in FencePool
    /\ f_plain = [done |-> FALSE, value |-> "none"]
    /\ f_fenced = [done |-> FALSE, value |-> "none"]

AnalyzePlain ==
    /\ ~f_plain.done
    /\ f_plain' = [done |-> TRUE, value |-> ParseContent(f_doc)]
    /\ UNCHANGED <<f_doc, f_fence, f_fenced>>
    /\ UNCHANGED <<mvars, svars, rvars, xvars>>

AnalyzeFenced ==
    /\ ~f_fenced.done
    /\ f_fenced' = [done |-> TRUE, value |-> ParseContent(Wrap(f_fence, f_doc))]
    /\ UNCHANGED <<f_doc, f_fence, f_plain>>
    /\ UNCHANGED <<mvars, svars, rvars, xvars>>

NextFence == AnalyzePlain \/ AnalyzeFenced

SpecFence == InitFence /\ [][NextFence]_vars

\* C15: for a content that is a valid JSON document J, analyzeJobCompatibility
\* returns for J inside a ```json ... ``` or a plain ``` ... ``` fence the
\* same result as for J unfenced, and that result is what J denotes.
C15_FenceTransparent ==
    /\ (f_plain.done /\ f_fenced.done) => f_fenced.value = f_plain.value
    /\ f_fenced.done =>
          \E d \in JsonDocs : d.text = f_doc /\ f_fenced.value = d.value

\* {"score":85} inside ```json and ``` on lines of their own
C15_Witness ==
    /\ f_plain.done
    /\ f_fenced.done
    /\ f_doc = <<"{","\"","s","c","o","r","e","\"",":","8","5","}">>
    /\ f_fence = [open |-> <<BT,BT,BT,"j","s","o","n","\n">>, close |-> <<"\n",BT,BT,BT>>]
    /\ f_fenced.value.score = Num(85)

-----------------------------------------------------------------------------
(* SpecFrame: one generateRecommendations invocation over a populated store *)

\* the Match rows an earlier matchJobsWithResume(r, analysis) left for `table`
RECURSIVE EarlierMatches(_, _, _)
EarlierMatches(r, analysis, table) ==
    IF table = <<>> THEN <<>>
    ELSE LET rest == EarlierMatches(r, analysis, SubSeq(table, 1, Len(table) - 1))
             job == table[Len(table)]
             h == HeuristicScore(job, analysis)
         IN  IF IsMatch(h.score)
             THEN Append(rest, [id |-> Len(rest) + 1, resumeId |-> r,
                                jobId |-> job.id, score |-> h.score])
             ELSE rest

\* const resume = await db.query.resumes.findFirst({where: eq(resumes.id, resumeId)})
FindFirst(resumeId) ==
    LET row == resumes[resumeId]
    IN  IF ~row.present
        THEN [present |-> FALSE, analysed |-> FALSE, skills |-> "none"]
        ELSE IF row.analysis.isNull
        THEN [present |-> TRUE, analysed |-> FALSE, skills |-> "none"]
        ELSE [present |-> TRUE, analysed |-> TRUE,
              skills |-> IF row.analysis.value.skills.isArray
                         THEN "array" ELSE "not-array"]

InitFrame ==
    /\ \E a \in StoreAnalysisPool, c \in StoreJobPool :
          /\ a.experience = Years(4)
          /\ a.skills = ArrayOf(<<Python, SQL>>)
          /\ c.skills = ArrayOf(<<Python, Django>>)
          /\ resumes = [r \in ResumeIds |->
                          IF r = "r1" THEN ResumeRow(Analysed(a))
                          ELSE ResumeRow(NullAnalysis)]
          /\ jobs = <<JobRow(1, c)>>
          /\ matches \in {<<>>, EarlierMatches("r1", a, jobs)}
    /\ nextJobId = Len(jobs)
    /\ nextMatchId = Len(matches)
    /\ updates = 0
    /\ invs = <<>>
    /\ ScoreIdle
    /\ FenceIdle
    /\ ScrapeIdle
    /\ rec_pc = "idle"
    /\ rec_id = "uuid"
    /\ \E target \in ResumeIds : rec_resume = FindFirst(target)
    /\ rec_net = <<>>
    /\ rec_indeed = [fetched |-> FALSE, kind |-> "none", threw |-> FALSE, jobs |-> <<>>]
    /\ rec_remote = [fetched |-> FALSE, kind |-> "none", threw |-> FALSE, jobs |-> <<>>]
    /\ rec_jobs = <<>>
    /\ rec_i = 0
    /\ rec_compat = <<>>
    /\ rec_last = "none"
    /\ rec_recs = <<>>
    /\ rec_result = [kind |-> "none", list |-> <<>>, error |-> "none"]
    /\ rec_response = NoResponse

SpecFrame == InitFrame /\ [][NextRec]_vars

\* C16: no step of a generateRecommendations invocation, however it ends,
\* changes the jobs table or the matches table: no Job row and no Match row
\* is created, updated or deleted.
C16_TablesUntouched ==
    [][ /\ jobs' = jobs
        /\ matches' = matches
        /\ nextJobId' = nextJobId
        /\ nextMatchId' = nextMatchId ]_vars

\* recommendations returned while the store holds one job and one Match row
C16_Witness ==
    /\ rec_pc = "done"
    /\ Len(rec_result.list) >= 1
    /\ Len(jobs) = 1
    /\ Len(matches) = 1

\* C14: when the invocation returns and no candidate cleared the threshold,
\* the endpoint answers 200 with data [] and the message "No strong job
\* matches found."; when some did, it answers 200 with success true and the
\* returned recommendations as data, between 1 and 10 of them.
C14_EndpointAnswer ==
    /\ rec_pc = "done" =>
          LET passing == { n \in Scored : HasScoreOf20(n) }
          IN  /\ rec_response.status = 200
              /\ rec_response.success
              /\ passing = {} =>
                    /\ rec_response.data = <<>>
                    /\ rec_response.message = "No strong job matches found."
              /\ passing # {} =>
                    /\ Len(rec_response.data) >= 1
                    /\ Len(rec_response.data) <= 10
                    /\ Len(rec_response.data) = Min(Cardinality(passing), 10)
                    /\ rec_response.data = rec_result.list
                    /\ rec_response.message = "none"
    /\ rec_pc = "scoring" => rec_response.status = 0

\* the only candidate scored 19: 200 with the message and no data
C14_Witness ==
    /\ rec_pc = "done"
    /\ Len(rec_jobs) = 1
    /\ rec_compat[1].score = Num(19)
    /\ rec_response.status = 200
    /\ rec_response.data = <<>>
    /\ rec_response.message = "No strong job matches found."

\* C18: a request to the recommendations endpoint whose id is a well-formed
\* UUID of no existing resume is answered with status 404.
C18_AbsentResumeIs404 ==
    (rec_id = "uuid" /\ ~rec_resume.present /\ rec_pc # "idle") =>
        rec_response.status = 404

\* the passing candidates that the returned list leaves out
LeftOut ==
    { e \in DOMAIN rec_recs :
        \A x \in DOMAIN rec_result.list : rec_result.list[x].job # rec_recs[e].job }

\* C19: when more than 10 candidates cleared the threshold, the returned list
\* has exactly 10 elements and no candidate left out has a higher
\* compatibilityScore than a returned one; when k <= 10 cleared it, all k are
\* returned.  Every returned element is one of the passing candidates, once.
C19_TopTenOfPassing ==
    rec_pc = "done" =>
        /\ \A x \in DOMAIN rec_result.list :
              \E e \in DOMAIN rec_recs : rec_recs[e] = rec_result.list[x]
        /\ \A x, y \in DOMAIN rec_result.list :
              rec_result.list[x].job = rec_result.list[y].job => x = y
        /\ Len(rec_recs) <= 10 =>
              /\ Len(rec_result.list) = Len(rec_recs)
              /\ LeftOut = {}
        /\ Len(rec_recs) > 10 =>
              /\ Len(rec_result.list) = 10
              /\ Cardinality(LeftOut) = Len(rec_recs) - 10
              /\ \A e \in LeftOut : \A x \in DOMAIN rec_result.list :
                    rec_recs[e].compatibilityScore.num
                        <= rec_result.list[x].compatibilityScore.num

\* twelve candidates passed; the first one met, scored 20, is left out of a
\* list of ten that are all scored 85
C19_Witness ==
    /\ rec_pc = "done"
    /\ Len(rec_recs) = 12
    /\ Len(rec_result.list) = 10
    /\ rec_recs[1].compatibilityScore = Num(20)
    /\ 1 \in LeftOut
    /\ rec_result.list[10].compatibilityScore.num = 85

\* Idle 0, Fetching 1, Scoring 2, Ranking and Done 4; 5: the invocation threw
Phase(pc) ==
    CASE pc = "idle" -> 0
      [] pc \in {"indeed", "remote"} -> 1
      [] pc = "scoring" -> 2
      [] pc = "done" -> 4
      [] OTHER -> 5

C20_State ==
    /\ (rec_compat # <<>> \/ \E k \in DOMAIN rec_net : rec_net[k] = "llm") =>
          rec_indeed.fetched /\ rec_remote.fetched
    /\ Phase(rec_pc) <= 1 => rec_compat = <<>> /\ rec_recs = <<>>
    /\ rec_pc = "remote" => rec_indeed.fetched /\ ~rec_remote.fetched
    /\ rec_pc = "scoring" =>
          rec_i = Len(rec_compat) + 1 /\ rec_i <= Len(rec_jobs)
    /\ rec_pc # "done" => rec_result.kind # "returned"
    /\ rec_pc = "done" =>
          /\ rec_result.kind = "returned"
          /\ Len(rec_compat) = Len(rec_jobs)

C20_Step ==
    /\ rec_pc \notin {"done", "failed"}
    /\ Phase(rec_pc') >= Phase(rec_pc)
    /\ rec_pc = "idle" => rec_pc' \in {"indeed", "failed"}
    /\ rec_pc = "indeed" => rec_pc' = "remote"
    /\ rec_pc = "remote" => rec_pc' \in {"scoring", "done"}
    /\ rec_pc = "scoring" =>
          /\ rec_pc' \in {"scoring", "done", "failed"}
          /\ Len(rec_compat') = Len(rec_compat) + 1
    /\ rec_pc' = "done" => Len(rec_compat') = Len(rec_jobs')

\* C20: an invocation moves through Idle, Fetching, Scoring, Ranking, Done
\* in that order and never back: no candidate is scored, and no LLM call
\* issued, before both source adapters have completed; the ranking is made
\* only once every candidate has been scored; an invocation that has
\* returned or thrown takes no further step.
C20_PhaseOrder == []C20_State /\ [][C20_Step]_vars

\* returned after both adapters yielded postings and each was scored
C20_Witness ==
    /\ rec_pc = "done"
    /\ Len(rec_indeed.jobs) = MaxPostings
    /\ Len(rec_remote.jobs) = MaxPostings
    /\ Len(rec_compat) = 2 * MaxPostings
    /\ Len(rec_result.list) >= 1

\* the number of calls to `target` among the outbound calls issued so far
CallsTo(target) == Cardinality({ k \in DOMAIN rec_net : rec_net[k] = target })

C21_State ==
    /\ CallsTo("indeed") <= 1
    /\ CallsTo("remoteok") <= 1
    /\ CallsTo("llm") <= Len(rec_jobs)
    /\ CallsTo("llm") = Len(rec_compat) + (IF rec_pc = "scoring" THEN 1 ELSE 0)
    /\ rec_pc = "done" => CallsTo("llm") = Len(rec_jobs)
    /\ \A n \in DOMAIN rec_compat :
          rec_compat[n].reasoning = "Analysis failed" => ~InList(rec_recs, n)

C21_Step ==
    (rec_pc = "scoring" /\ rec_last' \in FailureKinds) =>
        /\ rec_recs' = rec_recs
        /\ rec_i' = rec_i + 1
        /\ CallsTo("llm")' <= CallsTo("llm") + 1

\* C21: no upstream call is retried within an invocation: each job source
\* is fetched at most once, one LLM call is issued per scraped candidate
\* (each candidate exactly one once the invocation returns), a failed call is
\* followed by the call for the next candidate, and the candidate whose
\* scoring failed is not in the ranking input.
C21_NoRetry == []C21_State /\ [][C21_Step]_vars

\* four candidates, the first call failed: four LLM calls in all
C21_Witness ==
    /\ rec_pc = "done"
    /\ Len(rec_jobs) = 2 * MaxPostings
    /\ rec_compat[1].reasoning = "Analysis failed"
    /\ CallsTo("llm") = 2 * MaxPostings
    /\ CallsTo("indeed") = 1
    /\ CallsTo("remoteok") = 1

\* LLM calls issued and not yet settled
InFlight == CallsTo("llm") - Len(rec_compat)

C22_State ==
    /\ InFlight \in {0, 1}
    /\ InFlight = 1 <=> rec_pc = "scoring"
    /\ rec_pc = "scoring" => rec_i = Len(rec_compat) + 1

C22_Step ==
    CallsTo("llm")' # CallsTo("llm") =>
        /\ CallsTo("llm")' = CallsTo("llm") + 1
        /\ InFlight = 0 \/ Len(rec_compat') = Len(rec_compat) + 1
        /\ rec_i' = Len(rec_compat') + 1
        /\ rec_i' = CallsTo("llm")'
        /\ rec_jobs' = rec_jobs \/ rec_compat' = <<>>

\* C22: at most one LLM compatibility call is in flight at any time; the
\* call for the next candidate is issued in the step in which the call for
\* the current one settles, whether it succeeded or failed, and the n-th
\* call is for the n-th job of the scraped list.
C22_OneCallInFlight == []C22_State /\ [][C22_Step]_vars

\* the second call is in flight after the first one failed
C22_Witness ==
    /\ rec_pc = "scoring"
    /\ rec_i = 2
    /\ Len(rec_compat) = 1
    /\ rec_last \in FailureKinds
    /\ CallsTo("llm") = 2

\* C25: every compatibilityScore in the list generateRecommendations returns
\* is a number between 20 and 100 inclusive, whatever content the LLM
\* returned.
C25_ScoreScale ==
    rec_pc = "done" =>
        \A e \in DOMAIN rec_result.list :
            /\ rec_result.list[e].compatibilityScore.type = "number"
            /\ rec_result.list[e].compatibilityScore.num >= 20
            /\ rec_result.list[e].compatibilityScore.num <= 100

\* C24: whatever became of the insert of a job's Match row, an invocation of
\* matchJobsWithResume that has ended hands its caller an array holding, for
\* every job of its snapshot with a score above 0, the job record, the score
\* and the matched skills.
C24_ResultWhateverWrite ==
    \A k \in DOMAIN invs :
        LET v == invs[k]
        IN  (v.called /\ v.pc \in {"done", "failed"}) =>
                /\ v.pc = "done"
                /\ v.matchedJobs =
                       PositiveJobs(v.allJobs, v.analysis, Len(v.allJobs))

-----------------------------------------------------------------------------
(* SpecDelete: deleteResume beside concurrent matchJobsWithResume calls     *)

\* the two deleteResume implementations of the repository
DeleteVersions == {"matches-first", "resume-only"}

\* a matches row references resumes.id = r
Referenced(r) == \E k \in DOMAIN matches : matches[k].resumeId = r

RECURSIVE DeleteWhereResume(_, _)
\* db.delete(matches).where(eq(matches.resumeId, id)): the rows left
DeleteWhereResume(table, r) ==
    IF table = <<>> THEN <<>>
    ELSE IF Head(table).resumeId = r THEN DeleteWhereResume(Tail(table), r)
    ELSE <<Head(table)>> \o DeleteWhereResume(Tail(table), r)

InitDelete ==
    /\ \E a \in StoreAnalysisPool, c1 \in StoreJobPool, c2 \in StoreJobPool :
          /\ a.experience = Years(4)
          /\ a.skills = ArrayOf(<<Python, SQL>>)
          /\ c1.skills = ArrayOf(<<Python, Django>>)
          /\ resumes = [r \in ResumeIds |->
                          IF r = "r1" THEN ResumeRow(Analysed(a))
                          ELSE ResumeRow(NullAnalysis)]
          /\ jobs = <<JobRow(1, c1), JobRow(2, c2)>>
          /\ matches \in {<<>>, EarlierMatches("r1", a, jobs)}
    /\ nextJobId = Len(jobs)
    /\ nextMatchId = Len(matches)
    /\ updates = 0
    /\ invs = <<>>
    /\ ScoreIdle
    /\ RecIdle
    /\ FenceIdle
    /\ ScrapeIdle

\* deleteResume(id) is called
StartDelete(version, r) ==
    /\ del.pc = "idle"
    /\ del' = [NoDelete EXCEPT
                 !.pc = IF version = "matches-first" THEN "deleteMatches"
                        ELSE "deleteResume",
                 !.version = version, !.resumeId = r]
    /\ UNCHANGED mvars

\* await db.delete(matches).where(eq(matches.resumeId, id))
DeleteMatches ==
    /\ del.pc = "deleteMatches"
    /\ matches' = DeleteWhereResume(matches, del.resumeId)
    /\ del' = [del EXCEPT !.pc = "deleteResume",
                          !.removed = Len(matches) - Len(matches')]
    /\ UNCHANGED <<resumes, jobs, nextJobId, nextMatchId, updates, invs>>

\* db.delete(resumes).where(eq(resumes.id, id)): rejected by the foreign key
\* of matches.resume_id while a row references the resume (the first version
\* catches that and answers success: false, the second lets it escape); else
\* the row goes, or there was none to delete
DeleteResumeRow ==
    LET r == del.resumeId
    IN  /\ del.pc = "deleteResume"
        /\ IF resumes[r].present /\ Referenced(r)
           THEN /\ del' = [del EXCEPT !.pc = "done", !.success = FALSE,
                                      !.threw = (del.version = "resume-only")]
                /\ UNCHANGED resumes
           ELSE IF resumes[r].present
           THEN /\ resumes' = [resumes EXCEPT ![r] = NoResume]
                /\ del' = [del EXCEPT !.pc = "done", !.success = TRUE]
           ELSE /\ del' = [del EXCEPT !.pc = "done", !.success = FALSE]
                /\ UNCHANGED resumes
        /\ UNCHANGED <<jobs, matches, nextJobId, nextMatchId, updates, invs>>

NextDelete ==
    \/ \E v \in DeleteVersions, r \in ResumeIds :
          StartDelete(v, r) /\ UNCHANGED <<svars, rvars, fvars, ad, er, pager, run>>
    \/ DeleteMatches /\ UNCHANGED <<svars, rvars, fvars, ad, er, pager, run>>
    \/ DeleteResumeRow /\ UNCHANGED <<svars, rvars, fvars, ad, er, pager, run>>
    \/ \E r \in ResumeIds : MatchRequest(r) /\ UNCHANGED <<svars, rvars, fvars, xvars>>
    \/ \E k \in DOMAIN invs : GetResume(k) /\ UNCHANGED <<svars, rvars, fvars, xvars>>
    \/ \E k \in DOMAIN invs : SelectJobs(k) /\ UNCHANGED <<svars, rvars, fvars, xvars>>
    \/ \E k \in DOMAIN invs : LoopStep(k) /\ UNCHANGED <<svars, rvars, fvars, xvars>>
    \/ \E k \in DOMAIN invs : Return(k) /\ UNCHANGED <<svars, rvars, fvars, xvars>>

SpecDelete == InitDelete /\ [][NextDelete]_vars

\* once a deleteResume call has answered success, no matches row references
\* the resume it deleted, and the resume is gone
C23_State ==
    (del.pc = "done" /\ del.success) =>
        /\ ~resumes[del.resumeId].present
        /\ \A k \in DOMAIN matches : matches[k].resumeId # del.resumeId

\* a row of the matches table is, after any step, either still there with the
\* same values, or gone in the step in which a deleteResume call for its
\* resume deletes the resume's matches
C23_Step ==
    \A k \in DOMAIN matches :
        \/ \E j \in DOMAIN matches' : matches'[j] = matches[k]
        \/ /\ \A j \in DOMAIN matches' : matches'[j].id # matches[k].id
           /\ del.pc = "deleteMatches"
           /\ del'.pc = "deleteResume"
           /\ matches[k].resumeId = del.resumeId

\* C23: a Match row is never updated and is deleted only by a deleteResume
\* call for its parent resume; once such a call has ended successfully no
\* Match row references the deleted resume, however the call interleaves with
\* concurrent matchJobsWithResume invocations for that resume.
C23_MatchLifecycle == []C23_State /\ [][C23_Step]_vars

\* a deleteResume call removed Match rows and the resume while an invocation
\* for the same resume was under way, whose later insert was rejected
C23_Witness ==
    /\ del.pc = "done"
    /\ del.success
    /\ del.removed > 0
    /\ \E k \in DOMAIN invs :
          /\ invs[k].resumeId = del.resumeId
          /\ invs[k].pc = "failed"

-----------------------------------------------------------------------------
(* SpecCap: one generateRecommendations invocation whose upstream responses *)
(* hold more postings than an adapter returns                               *)

\* bound: postings one large upstream response yields
MaxUpstream == 17

\* an empty response, a failure, and the responses above the adapters' caps
CapUpstreamPool ==
    { [kind |-> "http-error", count |-> 0], [kind |-> "ok", count |-> 0] }
        \cup { [kind |-> "ok", count |-> c] : c \in (IndeedCap + 1) .. MaxUpstream }

\* every LLM call answers the same document
CapOutcomes == { [kind |-> "json", score |-> Num(85)] }

NextCap ==
    \/ FindResume
    \/ \E resp \in CapUpstreamPool : IndeedDone(resp)
    \/ \E resp \in CapUpstreamPool : RemoteDone(resp)
    \/ \E outcome \in CapOutcomes : LlmDone(outcome)

SpecCap == InitRec /\ [][NextCap]_vars

\* C26: each of scrapeIndeedJobs and scrapeRemoteOkJobs returns at most 15
\* postings whatever the upstream response holds, so scrapeJobs returns at
\* most 30 postings and one generateRecommendations invocation makes at most
\* 30 LLM calls.
C26_AdapterCaps ==
    /\ Len(rec_indeed.jobs) <= 15
    /\ Len(rec_remote.jobs) <= 15
    /\ Len(rec_jobs) <= 30
    /\ CallsTo("llm") <= 30
    /\ Len(rec_compat) <= 30

\* both upstream responses held more than 15 postings (the pool has no other
\* non-empty response); the invocation ended after 30 LLM calls
C26_Witness ==
    /\ rec_pc = "done"
    /\ Len(rec_indeed.jobs) = 15
    /\ Len(rec_remote.jobs) = 15
    /\ Len(rec_jobs) = 30
    /\ CallsTo("llm") = 30

-----------------------------------------------------------------------------
(* SpecRequirements: extractRequirements applied to one description        *)

\* const commonSkills = [...]
commonSkills ==
    <<
      <<"J","a","v","a","S","c","r","i","p","t">>,
      <<"T","y","p","e","S","c","r","i","p","t">>,
      <<"R","e","a","c","t">>,
      <<"N","o","d","e",".","j","s">>,
      <<"P","y","t","h","o","n">>,
      <<"J","a","v","a">>,
      <<"C","#">>,
      <<"A","n","g","u","l","a","r">>,
      <<"V","u","e",".","j","s">>,
      <<"E","x","p","r","e","s","s">>,
      <<"D","j","a","n","g","o">>,
      <<"M","o","n","g","o","D","B">>,
      <<"P","o","s","t","g","r","e","S","Q","L">>,
      <<"M","y","S","Q","L">>,
      <<"A","W","S">>,
      <<"D","o","c","k","e","r">>,
      <<"G","i","t">>,
      <<"R","E","S","T">>,
      <<"G","r","a","p","h","Q","L">>,
      <<"H","T","M","L">>,
      <<"C","S","S">>
    >>

RECURSIVE Filter(_, _, _)
\* Array.prototype.filter: the elements of list[1..n] at the positions where
\* the callback gave true, in order
Filter(list, passes, n) ==
    IF n = 0 THEN <<>>
    ELSE IF passes[n] THEN Append(Filter(list, passes, n - 1), list[n])
    ELSE Filter(list, passes, n - 1)

RECURSIVE NewSet(_, _)
\* [...new Set(list)]: list[1..n] without repetitions, first occurrences kept
NewSet(list, n) ==
    IF n = 0 THEN <<>>
    ELSE LET before == NewSet(list, n - 1)
         IN  IF \E k \in DOMAIN before : before[k] = list[n]
             THEN before
             ELSE Append(before, list[n])

\* extractRequirements comparing the description as it is written
extractRequirementsCaseSensitive(description) ==
    LET passes == [v \in DOMAIN commonSkills |->
                      Includes(description, commonSkills[v])]
        found == Filter(commonSkills, passes, Len(commonSkills))
    IN  NewSet(found, Len(found))

\* found = commonSkills.filter(skill =>
\*     description.toLowerCase().includes(skill.toLowerCase()));
\* return [...new Set(found)]
extractRequirements(description) ==
    LET passes == [v \in DOMAIN commonSkills |->
                      Includes(ToLowerCase(description),
                               ToLowerCase(commonSkills[v]))]
        found == Filter(commonSkills, passes, Len(commonSkills))
    IN  NewSet(found, Len(found))

\* bound: pieces a description is put together from
MaxFragments == 2

\* pieces of text; put side by side some give a vocabulary entry that none of
\* them holds alone
FragmentPool ==
    {
      <<"J","A","V","A","S","C","R","I","P","T">>,
      <<"j","a","v","a">>,
      <<"N","o","d","e",".","j","s">>,
      <<"c","s","s">>,
      <<"C","#">>,
      <<"d","i","g","i","t","a","l">>,
      <<"i","n","t","e","r","e","s","t">>,
      <<"P","y">>,
      <<"t","h","o","n">>,
      <<" ","a","n","d"," ">>
    }

RECURSIVE Concat(_)
Concat(pieces) ==
    IF pieces = <<>> THEN <<>> ELSE Head(pieces) \o Concat(Tail(pieces))

RequirementsDescriptionPool ==
    { Concat(p) : p \in UNION { [1 .. n -> FragmentPool] : n \in 0 .. MaxFragments } }

InitRequirements ==
    /\ StoreIdle
    /\ ScoreIdle
    /\ RecIdle
    /\ FenceIdle
    /\ DeleteIdle
    /\ AdapterIdle
    /\ PagerIdle
    /\ RunIdle
    /\ \E d \in RequirementsDescriptionPool :
          er = [description |-> d, done |-> FALSE, out |-> <<>>]

ExtractRequirements ==
    /\ ~er.done
    /\ er' = [er EXCEPT !.done = TRUE, !.out = extractRequirements(er.description)]
    /\ UNCHANGED <<mvars, svars, rvars, fvars, del, ad, pager, run>>

NextRequirements == ExtractRequirements

SpecRequirements == InitRequirements /\ [][NextRequirements]_vars

\* the place of a name in the vocabulary
VocabularyIndex(name) == CHOOSE v \in DOMAIN commonSkills : commonSkills[v] = name

\* C28: extractRequirements returns exactly the vocabulary entries that occur
\* in the description as a case-insensitive substring, each once and in
\* vocabulary order; the result is within the vocabulary and is empty for the
\* empty description.
C28_VocabularySubset ==
    er.done =>
        /\ \A i \in DOMAIN er.out :
              \E v \in DOMAIN commonSkills : er.out[i] = commonSkills[v]
        /\ \A v \in DOMAIN commonSkills :
              (\E i \in DOMAIN er.out : er.out[i] = commonSkills[v])
                  <=> ContainsCI(er.description, commonSkills[v])
        /\ \A i \in DOMAIN er.out : \A j \in DOMAIN er.out :
              i < j => VocabularyIndex(er.out[i]) < VocabularyIndex(er.out[j])
        /\ (er.description = <<>> => er.out = <<>>)

\* a description that holds "JavaScript" in capitals, and with it "Java",
\* and one entry that lies between the two in the vocabulary
C28_Witness ==
    /\ er.done
    /\ Len(er.out) = 3
    /\ er.out[1] = commonSkills[1]
    /\ er.out[3] = commonSkills[6]

-----------------------------------------------------------------------------
(* SpecFeed: scrapeRemoteOkJobs applied to one decoded feed                 *)

\* a feed field is truthy: present and not the empty string
Truthy(field) == ~field.isNull /\ field.text # <<>>

\* field || ""
OrEmpty(field) == IF Truthy(field) THEN field.text ELSE <<>>

Acme == <<"A","c","m","e">>
SqlLower == <<"s","q","l">>
Rust == <<"R","u","s","t">>

\* the first element of the RemoteOK feed: a legal notice, no posting
Legal == [position |-> NullText, company |-> NullText, description |-> NullText]

\* a posting that names Python in its description
PythonEntry ==
    [position |-> Text(Django), company |-> Text(Acme), description |-> Text(PythonLower)]

FeedEntryPool ==
    [position : {NullText, Text(SQL), Text(Django)},
     company : {NullText, Text(Acme)},
     description : {NullText, Text(PythonLower), Text(DescExpert)}]

\* bound: postings of a feed whose entries vary
MaxFeed == 2

\* feeds of few entries of every kind, and feeds of one entry repeated beyond
\* the part of the feed the adapter examines
FeedPool ==
    { <<head>> \o entries :
        head \in {Legal, PythonEntry},
        entries \in UNION { [1 .. n -> FeedEntryPool] : n \in 0 .. MaxFeed } }
      \cup { <<Legal>> \o [k \in 1 .. n |-> PythonEntry] :
                n \in RemoteCap .. MaxUpstream }

QuerySkillPool ==
    { <<>>, <<Python>>, <<SqlLower>>, <<Rust>>, <<Rust, Django>> }

\* Array.prototype.slice(from, to), zero-based, end excluded
SliceFromTo(list, from, to) == SubSeq(list, from + 1, Min(to, Len(list)))

RECURSIVE Some(_, _)
\* Array.prototype.some from position i on, `passes` being what the callback
\* gives at each position
Some(passes, i) ==
    IF i > Len(passes) THEN FALSE
    ELSE IF passes[i] THEN TRUE
    ELSE Some(passes, i + 1)

\* the skill filter comparing the description only
matchesSkillsDescriptionOnly(job, skills) ==
    LET description == OrEmpty(job.description)
        passes == [s \in DOMAIN skills |->
                      Includes(ToLowerCase(description), ToLowerCase(skills[s]))]
    IN  Some(passes, 1)

\* const matchesSkills = skills.some(skill =>
\*     description.toLowerCase().includes(skill.toLowerCase()) ||
\*     job.position.toLowerCase().includes(skill.toLowerCase()))
matchesSkills(job, skills) ==
    LET description == OrEmpty(job.description)
        passes == [s \in DOMAIN skills |->
                      \/ Includes(ToLowerCase(description), ToLowerCase(skills[s]))
                      \/ Includes(ToLowerCase(job.position.text),
                                  ToLowerCase(skills[s]))]
    IN  Some(passes, 1)

\* the object pushed for a feed entry
RemoteOkPosting(job) ==
    [title |-> job.position.text, company |-> job.company.text,
     description |-> OrEmpty(job.description),
     requirements |-> extractRequirements(OrEmpty(job.description)),
     source |-> "RemoteOK"]

RECURSIVE ForEachEntry(_, _, _)
\* data.slice(1, 16).forEach(...) over window[1..n]: the jobs array
ForEachEntry(window, skills, n) ==
    IF n = 0 THEN <<>>
    ELSE LET pushed == ForEachEntry(window, skills, n - 1)
             job == window[n]
         IN  IF Truthy(job.position) /\ Truthy(job.company)
                /\ matchesSkills(job, skills)
             THEN Append(pushed, RemoteOkPosting(job))
             ELSE pushed

\* scrapeRemoteOkJobs once response.json() has given `data`
RemoteOkJobs(data, skills) ==
    LET window == SliceFromTo(data, 1, 16)
    IN  ForEachEntry(window, skills, Len(window))

InitFeed ==
    /\ StoreIdle
    /\ ScoreIdle
    /\ RecIdle
    /\ FenceIdle
    /\ DeleteIdle
    /\ RequirementsIdle
    /\ PagerIdle
    /\ RunIdle
    /\ \E data \in FeedPool, skills \in QuerySkillPool :
          ad = [source |-> "RemoteOK", data |-> data, skills |-> skills,
                done |-> FALSE, out |-> <<>>]

ScrapeFeed ==
    /\ ~ad.done
    /\ ad' = [ad EXCEPT !.done = TRUE, !.out = RemoteOkJobs(ad.data, ad.skills)]
    /\ UNCHANGED <<mvars, svars, rvars, fvars, del, er, pager, run>>

NextFeed == ScrapeFeed

SpecFeed == InitFeed /\ [][NextFeed]_vars

\* the feed positions the adapter examines: the 15 after the first
Examined == { k \in DOMAIN ad.data : 2 <= k /\ k <= 16 }

\* the examined entries that have a position and a company and whose
\* description or title holds one of the query skills, letter case ignored
Passing ==
    { k \in Examined :
        /\ Truthy(ad.data[k].position)
        /\ Truthy(ad.data[k].company)
        /\ \E s \in DOMAIN ad.skills :
              \/ ContainsCI(OrEmpty(ad.data[k].description), ad.skills[s])
              \/ ContainsCI(ad.data[k].position.text, ad.skills[s]) }

\* C27: scrapeRemoteOkJobs returns, of the feed entries it examines that have
\* a position and a company, exactly those whose description or title holds
\* one of the query skills as a case-insensitive substring, in feed order;
\* with no query skill it returns nothing.
C27_FeedFilter ==
    ad.done =>
        /\ Len(ad.out) = Cardinality(Passing)
        /\ \A k \in Passing :
              LET place == Cardinality({ j \in Passing : j <= k })
              IN  /\ ad.out[place].title = ad.data[k].position.text
                  /\ ad.out[place].company = ad.data[k].company.text
                  /\ ad.out[place].description = OrEmpty(ad.data[k].description)
        /\ (ad.skills = <<>> => ad.out = <<>>)

\* a feed of two postings, the first passing by its title alone and the
\* second by its description alone, both returned in feed order
C27_Witness ==
    /\ ad.done
    /\ Len(ad.data) = 3
    /\ ad.skills = <<Rust, Django>>
    /\ ad.data[2].position = Text(Django)
    /\ ad.data[2].description = NullText
    /\ ad.data[3].position = Text(SQL)
    /\ ad.data[3].description = Text(DescExpert)
    /\ Len(ad.out) = 2
    /\ ad.out[1].title = Django
    /\ ad.out[2].title = SQL

-----------------------------------------------------------------------------
(* SpecPager: one call of a multi-page scraper (BrighterMonday, Corporate   *)
(* Staffing, MyJobMag)                                                      *)

Sites == {"brightermonday", "corporatestaffing", "myjobmag"}

\* const maxPages = 5 / 3 / 5
maxPages(site) == IF site = "corporatestaffing" THEN 3 ELSE 5

\* bound: jobs the extraction of one page yields
MaxPageJobs == 2

\* how an awaited browser call ends; when it fails the catch block runs
\* `await browser.close()`, which may fail in turn
CallOutcomes == {"ok", "failed", "failed-close-failed"}

Event(e, page, n) == [e |-> e, page |-> page, jobs |-> n]

\* a loop that goes on to the next page however few jobs the page gave
ContinuesWhileMore(site, jobData, more) ==
    site = "corporatestaffing" \/ more

\* the negation of the break conditions: (!hasNextPage || jobData.length === 0),
\* (jobData.length === 0), (!hasContent || jobData.length === 0)
Continues(site, jobData, more) ==
    jobData # 0 /\ (site = "corporatestaffing" \/ more)

\* the catch block of a scraper: browser.close(), return 0
Caught(outcome) ==
    IF outcome = "failed"
    THEN [pager EXCEPT !.pc = "returned", !.outcome = "caught", !.storedCount = 0]
    ELSE [pager EXCEPT !.pc = "threw", !.outcome = "threw", !.storedCount = 0]

\* what a step of the page loop leaves alone
PagerFrame ==
    /\ UNCHANGED <<resumes, matches, nextMatchId, updates, invs>>
    /\ UNCHANGED <<svars, rvars, fvars, del, ad, er, run>>

\* the rows createJob has inserted for a scraper
ScrapedRows(n) ==
    [k \in 1 .. n |->
        JobRow(nextJobId + k, [skills |-> NotAnArray, description |-> Text(DescExpert)])]

InitPager ==
    /\ StoreIdle
    /\ ScoreIdle
    /\ RecIdle
    /\ FenceIdle
    /\ DeleteIdle
    /\ AdapterIdle
    /\ RequirementsIdle
    /\ RunIdle
    /\ \E site \in Sites : pager = [NoPager EXCEPT !.site = site]

\* puppeteer.launch, newPage, setUserAgent (before the try block), then the
\* first pass of the while loop up to page.goto
Launch(outcome) ==
    /\ pager.pc = "idle"
    /\ pager' = IF outcome = "ok"
                THEN [pager EXCEPT !.pc = "goto", !.pageNum = 1,
                                   !.log = <<Event("goto", 1, 0)>>]
                ELSE [pager EXCEPT !.pc = "threw", !.outcome = "threw"]
    /\ UNCHANGED <<jobs, nextJobId>>
    /\ PagerFrame

\* page.goto settles, then the wait for the listing (its failure is ignored)
GotoDone(outcome) ==
    /\ pager.pc = "goto"
    /\ pager' = IF outcome = "ok" THEN [pager EXCEPT !.pc = "evaluate"]
                ELSE Caught(outcome)
    /\ UNCHANGED <<jobs, nextJobId>>
    /\ PagerFrame

\* after the break tests: pageNum++ and the delay, or the loop is left
AfterPage(p, more) ==
    IF Continues(p.site, p.jobData, more)
    THEN [p EXCEPT !.pc = "delay", !.pageNum = p.pageNum + 1]
    ELSE [p EXCEPT !.pc = "store"]

\* const jobData = await page.evaluate(...); allJobs = [...allJobs, ...jobData]
EvaluateDone(n, outcome) ==
    LET got == [pager EXCEPT
                  !.jobData = n, !.allJobs = pager.allJobs + n,
                  !.log = Append(pager.log, Event("extracted", pager.pageNum, n))]
    IN  /\ pager.pc = "evaluate"
        /\ pager' = IF outcome # "ok" THEN Caught(outcome)
                    ELSE IF pager.site = "corporatestaffing"
                    THEN AfterPage(got, TRUE)
                    ELSE [got EXCEPT !.pc = "check"]
        /\ UNCHANGED <<jobs, nextJobId>>
        /\ PagerFrame

\* const hasNextPage / hasContent = await page.evaluate(...)
CheckDone(more, outcome) ==
    /\ pager.pc = "check"
    /\ pager' = IF outcome = "ok" THEN AfterPage(pager, more) ELSE Caught(outcome)
    /\ UNCHANGED <<jobs, nextJobId>>
    /\ PagerFrame

\* the inter-page delay has elapsed: the while test, then the next page.goto
DelayDone ==
    /\ pager.pc = "delay"
    /\ pager' =
          IF pager.pageNum <= maxPages(pager.site)
          THEN [pager EXCEPT
                  !.pc = "goto",
                  !.log = pager.log \o <<Event("delay", pager.pageNum, 0),
                                         Event("goto", pager.pageNum, 0)>>]
          ELSE [pager EXCEPT
                  !.pc = "store",
                  !.log = Append(pager.log, Event("delay", pager.pageNum, 0))]
    /\ UNCHANGED <<jobs, nextJobId>>
    /\ PagerFrame

\* browser.close(), then createJob for each job: `stored` of them succeed
StoreJobs(stored, outcome) ==
    /\ pager.pc = "store"
    /\ stored <= pager.allJobs
    /\ IF outcome = "ok"
       THEN /\ pager' = [pager EXCEPT !.pc = "returned", !.outcome = "returned",
                                      !.storedCount = stored]
            /\ jobs' = jobs \o ScrapedRows(stored)
            /\ nextJobId' = nextJobId + stored
       ELSE /\ pager' = Caught(outcome)
            /\ UNCHANGED <<jobs, nextJobId>>
    /\ PagerFrame

NextPager ==
    \/ \E outcome \in CallOutcomes : Launch(outcome)
    \/ \E outcome \in CallOutcomes : GotoDone(outcome)
    \/ \E n \in 0 .. MaxPageJobs, outcome \in CallOutcomes : EvaluateDone(n, outcome)
    \/ \E more \in BOOLEAN, outcome \in CallOutcomes : CheckDone(more, outcome)
    \/ DelayDone
    \/ \E stored \in 0 .. pager.allJobs, outcome \in CallOutcomes :
          StoreJobs(stored, outcome)

\* every awaited call settles (page.goto has a timeout, the delays are timers)
SpecPager == InitPager /\ [][NextPager]_vars /\ WF_vars(NextPager)

\* the page requests made so far
Requests == { i \in DOMAIN pager.log : pager.log[i].e = "goto" }

\* page 1 is requested first; a later page n + 1 is requested right after the
\* delay that followed the extraction of page n, which gave at least one job;
\* no more than 5, 3 and 5 pages are requested
C29_State ==
    /\ \A i \in Requests :
          IF pager.log[i].page = 1 THEN i = 1
          ELSE /\ i >= 4
               /\ pager.log[i - 1].e = "delay"
               /\ pager.log[i - 2].e = "extracted"
               /\ pager.log[i - 2].page = pager.log[i].page - 1
               /\ pager.log[i - 2].jobs > 0
               /\ pager.log[i - 3].e = "goto"
               /\ pager.log[i - 3].page = pager.log[i].page - 1
    /\ pager.site = "brightermonday" => Cardinality(Requests) <= 5
    /\ pager.site = "corporatestaffing" => Cardinality(Requests) <= 3
    /\ pager.site = "myjobmag" => Cardinality(Requests) <= 5

\* the scraper call has ended
C29_Ended == pager.pc \in {"returned", "threw"}

\* C29: the page loop of each multi-page scraper is sequential and ends: page
\* n + 1 is requested only after the extraction of page n and the delay, at
\* most maxPages pages (5, 3, 5) are requested, and no page is requested
\* after one that gave zero jobs.
C29_PageLoop == []C29_State /\ <>C29_Ended

\* a MyJobMag call that asked for three pages, the third of which gave no
\* job, and returned
C29_Witness ==
    /\ pager.site = "myjobmag"
    /\ pager.pc = "returned"
    /\ pager.outcome = "returned"
    /\ Cardinality(Requests) = 3
    /\ pager.log[Len(pager.log)] = Event("extracted", 3, 0)

-----------------------------------------------------------------------------
(* SpecScrapeAll: one scrapeAllJobs call                                    *)

\* the two scrapeAllJobs of the repository: jobs.service.ts runs two
\* scrapers, part_003 five
RunVersions == {"two", "five"}

Scrapers(version) ==
    IF version = "two" THEN <<"puppeteer", "serpapi">>
    ELSE <<"puppeteer", "serpapi", "brightermonday", "corporatestaffing", "myjobmag">>

\* bound: jobs one scraper stores
MaxScraped == 2

\* how a scraper call ends.  scrapeAndStoreJobs has no try block: it can throw
\* with some jobs already stored.  scrapeJobsWithSerpAPI rethrows what fails
\* before its storing loop.  A multi-page scraper returns 0 from its catch
\* block, and throws when the browser cannot be launched or closed.
ScraperOutcomes(name) ==
    { [kind |-> "returned", count |-> n, stored |-> n] : n \in 0 .. MaxScraped }
      \cup { [kind |-> "threw", count |-> 0, stored |-> 0] }
      \cup (IF name = "puppeteer"
            THEN { [kind |-> "threw", count |-> 0, stored |-> m] : m \in 1 .. MaxScraped }
            ELSE IF name = "serpapi" THEN {}
            ELSE { [kind |-> "caught", count |-> 0, stored |-> 0] })

\* the scraper the code turns to after position i of the list: the SerpAPI
\* scraper is passed over when searchParams is undefined; 0 when none is left
RECURSIVE NextScraper(_, _, _)
NextScraper(list, i, searchParams) ==
    IF i >= Len(list) THEN 0
    ELSE IF list[i + 1] = "serpapi" /\ ~searchParams
    THEN NextScraper(list, i + 1, searchParams)
    ELSE i + 1

\* the place of a scraper in the list, where results keeps its count
Position(list, name) == CHOOSE i \in DOMAIN list : list[i] = name

RECURSIVE SumCounts(_, _, _)
\* results.puppeteer + results.serpapi + ...
SumCounts(counts, list, n) ==
    IF n = 0 THEN 0
    ELSE SumCounts(counts, list, n - 1) + counts[Position(list, list[n])]

InitScrapeAll ==
    /\ StoreIdle
    /\ ScoreIdle
    /\ RecIdle
    /\ FenceIdle
    /\ DeleteIdle
    /\ AdapterIdle
    /\ RequirementsIdle
    /\ PagerIdle
    /\ \E version \in RunVersions, searchParams \in BOOLEAN :
          run = [NoRun EXCEPT
                   !.version = version, !.searchParams = searchParams,
                   !.counts = [k \in DOMAIN Scrapers(version) |-> 0]]

RunFrame ==
    /\ UNCHANGED <<resumes, matches, nextMatchId, updates, invs>>
    /\ UNCHANGED <<svars, rvars, fvars, del, ad, er, pager>>

\* scrapeAllJobs up to its first await: results is built, scrapeAndStoreJobs
\* is called
StartRun ==
    /\ run.pc = "idle"
    /\ run' = [run EXCEPT !.pc = "running", !.invoked = <<"puppeteer">>]
    /\ UNCHANGED <<jobs, nextJobId>>
    /\ RunFrame

\* a scrapeAllJobs whose calls are not wrapped in try/catch
ScraperDoneUncaught(outcome) ==
    LET list == Scrapers(run.version)
        name == run.invoked[Len(run.invoked)]
        at == Position(list, name)
        next == NextScraper(list, at, run.searchParams)
        counts == [run.counts EXCEPT ![at] = outcome.count]
        done == Append(run.settled, [name |-> name, kind |-> outcome.kind])
    IN  /\ run.pc = "running"
        /\ outcome \in ScraperOutcomes(name)
        /\ jobs' = jobs \o ScrapedRows(outcome.stored)
        /\ nextJobId' = nextJobId + outcome.stored
        /\ run' = IF outcome.kind = "threw"
                  THEN [run EXCEPT !.pc = "threw", !.settled = done]
                  ELSE IF next # 0
                  THEN [run EXCEPT !.settled = done, !.counts = counts,
                                   !.invoked = Append(run.invoked, list[next])]
                  ELSE [run EXCEPT !.settled = done, !.counts = counts,
                                   !.pc = "returned",
                                   !.total = SumCounts(counts, list, Len(list))]
        /\ RunFrame

\* the awaited scraper settles: its count is stored, or the catch block
\* pushes to results.errors; then the next scraper is called, or the total is
\* computed and results returned
ScraperDone(outcome) ==
    LET list == Scrapers(run.version)
        name == run.invoked[Len(run.invoked)]
        at == Position(list, name)
        next == NextScraper(list, at, run.searchParams)
        counts == IF outcome.kind = "threw" THEN run.counts
                  ELSE [run.counts EXCEPT ![at] = outcome.count]
        errors == IF outcome.kind = "threw" THEN Append(run.errors, name)
                  ELSE run.errors
        done == Append(run.settled, [name |-> name, kind |-> outcome.kind])
    IN  /\ run.pc = "running"
        /\ outcome \in ScraperOutcomes(name)
        /\ jobs' = jobs \o ScrapedRows(outcome.stored)
        /\ nextJobId' = nextJobId + outcome.stored
        /\ run' = IF next # 0
                  THEN [run EXCEPT !.settled = done, !.counts = counts,
                                   !.errors = errors,
                                   !.invoked = Append(run.invoked, list[next])]
                  ELSE [run EXCEPT !.settled = done, !.counts = counts,
                                   !.errors = errors, !.pc = "returned",
                                   !.total = SumCounts(counts, list, Len(list))]
        /\ RunFrame

AllOutcomes ==
    UNION { ScraperOutcomes(name) : name \in {"puppeteer", "serpapi", "myjobmag"} }

NextScrapeAll ==
    \/ StartRun
    \/ \E outcome \in AllOutcomes : ScraperDone(outcome)

SpecScrapeAll == InitScrapeAll /\ [][NextScrapeAll]_vars

\* the scrapers a call has to invoke, in order
Configured ==
    SelectSeq(Scrapers(run.version),
              LAMBDA name : name # "serpapi" \/ run.searchParams)

\* the scrapers whose call raised
Raised == { i \in DOMAIN run.settled : run.settled[i].kind = "threw" }

====
